---- MODULE Spec2Model ----
(***************************************************************************)
(* caBLE v2 hybrid transport: BLE advertisement trial decryption           *)
(* (package ble, CableV2Decryptor) and the tunnel handshake and session    *)
(* framing (package tunnel, Client and Connection).                        *)
(*                                                                         *)
(* Bytes are the integers 0..255 and byte strings are sequences of them,   *)
(* with the lengths the code uses.  The library primitives the code calls  *)
(* (SHA-256, HMAC, HKDF, AES, ChaCha20-Poly1305) are replaced by small     *)
(* keyed functions with the same interface and the same composition        *)
(* (HKDF is extract-then-expand over HMAC, the AEAD is encrypt-then-MAC,   *)
(* the block cipher is a keyed permutation with its inverse); what the     *)
(* repository's own code does with their inputs and outputs is modelled    *)
(* byte for byte.                                                          *)
(***************************************************************************)
EXTENDS Integers, Sequences, FiniteSets, TLC

VARIABLES
    d_pc,        \* position inside DecryptServiceData / trialDecrypt
    d_caller,    \* "DecryptServiceData" or "trialDecrypt" (called directly, as the tests do)
    qrSecret,    \* CableV2Decryptor.qrSecret
    encryptedData, \* the candidate handed in
    eidKey,      \* the local eidKey array of DecryptServiceData
    plaintext,   \* the [16]byte trialDecrypt returns
    ok,          \* the bool trialDecrypt returns
    d_ret,       \* what DecryptServiceData returned: [data, err]
    d_ops,       \* the cryptographic operations executed by the current call, in order
    d_flipped,   \* TRUE when the candidate is a one-bit change of the candidate accepted just before
    d_log        \* the lines the current call has written with log.Printf: text and the bytes printed as %x

bleVars == <<d_pc, d_caller, qrSecret, encryptedData, eidKey, plaintext, ok, d_ret, d_ops, d_flipped, d_log>>

VARIABLES
    t_pc,        \* position of the desktop in NewClient / attemptConnection / performHandshake
    client,      \* the tunnel Client: publicKey, qrSecret, handshakeKey
    wsOpen,      \* the websocket to the relay is open
    relay,       \* every message the desktop has written to the relay, in order
    response,    \* the handshake response read from the relay
    respFrom,    \* who built that response: "phone" (holds the QR secret) or "relay" (does not)
    connection,  \* the Connection performHandshake returned: encryptKey, decryptKey, sequenceNo
    peerKeys,    \* the session keys of the other side, computed by deriveSessionKeys with the roles swapped
    sealed,      \* every frame encryptMessage has returned, in order, with its message
    ctx,         \* the context handed to runHybridTransport / WaitForConnection: "live" or "done"
    t_caller,    \* who called NewClient: "runHybridTransport" or "direct" (any other user of the package)
    t_err,       \* the error of the step that failed, NoError while none has
    t_ops,       \* what performHandshake has done so far, in order: "write", "read", "open", "keys"
    wsURL,       \* the URL WaitForConnection handed to the dialer
    received     \* the outcomes of the last reads of the message loop, oldest first

tunnelVars == <<t_pc, client, wsOpen, relay, response, respFrom, connection, peerKeys, sealed,
                ctx, t_caller, t_err, t_ops, wsURL, received>>

VARIABLES
    k_decryptor, \* the CableV2Decryptor instance whose derive method is called
    k_calls      \* the last two key derivations made, oldest first

keyVars == <<k_decryptor, k_calls>>

VARIABLES
    q_fn,        \* the function of package qrcode (or the advert parser) applied last
    q_arg,       \* its argument
    q_res,       \* its result
    q_orig       \* the value the chain of conversions began with

codecVars == <<q_fn, q_arg, q_res, q_orig>>

VARIABLES
    w_pc,        \* position of the caller of WaitForTunnelAdvertisement
    w_ret,       \* what WaitForTunnelAdvertisement returned: [info, err]
    s_ctx,       \* the context handed to WaitForTunnelAdvertisement: "live" or "done"
    g_pc,        \* position of the goroutine that runs adapter.Scan
    g_result,    \* the ScanResult the scan callback is processing
    g_count,     \* the number of advertisements the adapter has delivered to the callback
    m_pc,        \* position of the goroutine that waits for ctx.Done() to stop the scan
    a_stopCalls, \* the number of calls of adapter.StopScan
    tunnelInfoChan, \* make(chan *TunnelInfo, 1)
    scanErrChan, \* make(chan error, 1)
    scanDoneChan, \* make(chan bool, 1)
    h_placed,    \* every TunnelInfo placed on tunnelInfoChan, oldest first, with the bytes it was built from
    c_last       \* what the last call of processTunnelAdvertisement returned and did

scanVars == <<w_pc, w_ret, s_ctx, g_pc, g_result, g_count, m_pc, a_stopCalls,
              tunnelInfoChan, scanErrChan, scanDoneChan, h_placed, c_last>>

VARIABLES
    l_running,   \* Scanner.running
    l_ctx,       \* the context handed to StartScanning: "live" or "done"
    l_callers,   \* the goroutines that call StartScanning and StopScanning: position, last return
    l_loops      \* the scan loops started so far, in order: position and what they last saw

loopVars == <<l_running, l_ctx, l_callers, l_loops>>

VARIABLES
    x_sequenceNo, \* Connection.sequenceNo of a Connection several goroutines write to
    x_writers,    \* the goroutines that call WriteMessage: position and local variables
    x_frames,     \* the frames sealed so far, in the order they were sealed
    x_overlapped  \* two WriteMessage calls were in progress at the same time

writerVars == <<x_sequenceNo, x_writers, x_frames, x_overlapped>>

VARIABLES
    y_qrSecret,   \* the package variable qrSecret of package qrcode
    y_identityKey, \* the package variable identityKey
    y_qrDatas,    \* the QRData values GenerateQRData has returned, oldest first
    y_shown       \* the string showQRCode returned last

qrVars == <<y_qrSecret, y_identityKey, y_qrDatas, y_shown>>

\* The variables of the components above, and of those below.
earlierVars == <<bleVars, tunnelVars, keyVars, codecVars>>
laterVars == <<scanVars, loopVars, writerVars, qrVars>>

vars == <<bleVars, tunnelVars, keyVars, codecVars, scanVars, loopVars, writerVars, qrVars>>

(***************************************************************************)
(* Bounds of the model.                                                    *)
(***************************************************************************)
NumSecrets == 2
NumRawKeys == 1
NumPlain == 2

(***************************************************************************)
(* Program constants.                                                      *)
(***************************************************************************)
CableV2EIDKeyLength == 64
CableV2AESKeyLength == 32
CableV2AdvertLength == 20
CableV2PlaintextLength == 16
CableV2HMACTagLength == 4
keyPurposeEIDKey == 1
keyPurposeTunnelID == 2
keyPurposePSK == 3

(***************************************************************************)
(* Byte strings.                                                           *)
(***************************************************************************)
Zeros(n) == [i \in 1..n |-> 0]

Range(f) == {f[i] : i \in DOMAIN f}

\* s[from:to] of Go: the bytes at 0-based offsets from .. to-1.
Slice(s, from, to) == SubSeq(s, from + 1, to)

\* One bit of one byte inverted: offset is 0-based, bit 0 is the low bit.
FlipBit(s, offset, bit) ==
    LET b == s[offset + 1]
        w == 2 ^ bit
    IN  [s EXCEPT ![offset + 1] = IF (b \div w) % 2 = 1 THEN b - w ELSE b + w]

(***************************************************************************)
(* Stand-ins for the library primitives.                                   *)
(***************************************************************************)
\* g^k modulo the prime m, by squaring.
RECURSIVE PowMod(_, _, _)
PowMod(g, k, m) ==
    IF k = 0 THEN 1
    ELSE LET half == PowMod(g, k \div 2, m)
         IN  (((half * half) % m) * (IF k % 2 = 1 THEN g ELSE 1)) % m

\* The powers used by the two hashes, tabulated once.
Pow251 == [k \in 0..255 |-> PowMod(251, k, 46337)]
Pow241 == [k \in 0..255 |-> PowMod(241, k, 46327)]

\* The polynomial  sum of (s[i] + 1) * g^(Len(s) - i)  over i in lo..hi, modulo m,
\* with pow[k] = g^k.
RECURSIVE PolySum(_, _, _, _, _)
PolySum(s, lo, hi, pow, m) ==
    IF lo > hi THEN 0
    ELSE IF lo = hi THEN ((s[lo] + 1) * pow[Len(s) - lo]) % m
    ELSE LET mid == (lo + hi) \div 2
         IN  (PolySum(s, lo, mid, pow, m) + PolySum(s, mid + 1, hi, pow, m)) % m

\* The digest of a byte string: two polynomial hashes, modulo the primes
\* 46337 and 46327, squeezed to 32 bytes of which the first four hold both
\* hashes in full.
SHA256(s) ==
    LET h1 == PolySum(s, 1, Len(s), Pow251, 46337)
        h2 == PolySum(s, 1, Len(s), Pow241, 46327)
    IN  [i \in 1..32 |->
            CASE i = 1 -> h1 % 256
              [] i = 2 -> h1 \div 256
              [] i = 3 -> h2 % 256
              [] i = 4 -> h2 \div 256
              [] OTHER -> (h1 * i + h2 + 41 * i) % 256]

\* hmac.New(sha256.New, key); Write(msg); Sum(nil): 32 bytes.
HMACSHA256(key, msg) == SHA256(key \o msg \o key)

\* hmac.Equal
hmacEqual(a, b) == a = b

\* HKDF (RFC 5869) over HMACSHA256: the first n bytes of T(1) || T(2) || ...
\* A nil salt is 32 zero bytes.
HKDFExtract(secret, salt) ==
    HMACSHA256(IF salt = <<>> THEN Zeros(32) ELSE salt, secret)

RECURSIVE HKDFBlock(_, _, _)
HKDFBlock(prk, info, i) ==
    HMACSHA256(prk, (IF i = 1 THEN <<>> ELSE HKDFBlock(prk, info, i - 1)) \o info \o <<i>>)

RECURSIVE HKDFStream(_, _, _)
HKDFStream(prk, info, blocks) ==
    IF blocks = 0 THEN <<>>
    ELSE HKDFStream(prk, info, blocks - 1) \o HKDFBlock(prk, info, blocks)

HKDF(secret, salt, info, n) ==
    SubSeq(HKDFStream(HKDFExtract(secret, salt), info, (n + 31) \div 32), 1, n)

\* aes.NewCipher(key).Encrypt / .Decrypt on one 16-byte block: a keyed
\* permutation of the blocks and its inverse.
AESEncrypt(key, p) ==
    [i \in 1..16 |-> (p[(i % 16) + 1] + key[i] + 3 * key[i + 16]) % 256]

AESDecrypt(key, c) ==
    [j \in 1..16 |->
        LET i == ((j + 14) % 16) + 1
        IN  (c[i] + 1024 - key[i] - 3 * key[i + 16]) % 256]

(***************************************************************************)
(* CableV2Decryptor.                                                       *)
(***************************************************************************)
NoError == <<>>
NoData == <<>>

\* The input key material is not the secret handed in.
derive_SecretIgnored(n, secret, salt, purpose) ==
    IF purpose >= 256
    THEN [err |-> <<"unsupported purpose", purpose>>, output |-> Zeros(n)]
    ELSE [err |-> NoError, output |-> HKDF(Zeros(16), salt, <<purpose % 256, 0, 0, 0>>, n)]

\* derive: HKDF of the secret with the 4-byte little-endian purpose as info.
derive(n, secret, salt, purpose) ==
    IF purpose >= 256
    THEN [err |-> <<"unsupported purpose", purpose>>, output |-> Zeros(n)]
    ELSE [err |-> NoError, output |-> HKDF(secret, salt, <<purpose % 256, 0, 0, 0>>, n)]

\* Only the top bit of the flags byte is looked at.
reservedBitsAreZero_TopBitOnly(p) == p[1] < 128

\* reservedBitsAreZero
reservedBitsAreZero(p) == p[1] = 0

\* The tag comparison of trialDecrypt.
expectedTag(key, candidateAdvert) ==
    HMACSHA256(Slice(key, CableV2AESKeyLength, CableV2EIDKeyLength), Slice(candidateAdvert, 0, 16))

\* Only three of the four tag bytes are compared.
tagMatches_ThreeBytes(key, candidateAdvert) ==
    hmacEqual(Slice(expectedTag(key, candidateAdvert), 0, 3), Slice(candidateAdvert, 16, 19))

tagMatches(key, candidateAdvert) ==
    hmacEqual(Slice(expectedTag(key, candidateAdvert), 0, CableV2HMACTagLength),
              Slice(candidateAdvert, 16, Len(candidateAdvert)))

\* The block is decrypted under the HMAC half of the EID key.
decryptBlock_HmacHalf(key, candidateAdvert) ==
    AESDecrypt(Slice(key, CableV2AESKeyLength, CableV2EIDKeyLength), Slice(candidateAdvert, 0, 16))

\* The block decryption of trialDecrypt.
decryptBlock(key, candidateAdvert) ==
    AESDecrypt(Slice(key, 0, CableV2AESKeyLength), Slice(candidateAdvert, 0, 16))

(***************************************************************************)
(* The inputs the model draws from.                                        *)
(***************************************************************************)
SecretOf(i) == [j \in 1..16 |-> (37 * i + 11 * j) % 256]
QRSecrets == {SecretOf(i) : i \in 1..NumSecrets}

\* EID keys that are not the HKDF output of a modelled secret.
RawKeyOf(i) == [j \in 1..CableV2EIDKeyLength |-> (101 * i + 29 * j + 5) % 256]

EIDKeyOf(secret) == derive(CableV2EIDKeyLength, secret, <<>>, keyPurposeEIDKey).output
EIDKeys == {EIDKeyOf(s) : s \in QRSecrets} \cup {RawKeyOf(i) : i \in 1..NumRawKeys}

\* The reserved/flags bytes of TestReservedBitsValidation.
ReservedValues == {0, 1, 255}
PlainOf(flags, i) == <<flags>> \o [j \in 1..15 |-> (53 * i + 7 * j) % 256]
Plaintexts == {PlainOf(f, i) : f \in ReservedValues, i \in 1..NumPlain}

\* What the phone broadcasts for plaintext p under an EID key: the AES block
\* followed by the first 4 bytes of its HMAC.
BuildAdvert(key, p) ==
    LET block == AESEncrypt(Slice(key, 0, 32), p)
    IN  block \o Slice(HMACSHA256(Slice(key, 32, 64), block), 0, 4)

Adverts == {BuildAdvert(k, p) : k \in EIDKeys, p \in Plaintexts}

Candidates ==
    Adverts
    \cup {Slice(a, 0, n) : a \in Adverts, n \in {0, 16, 19}}
    \cup {a \o <<0>> : a \in Adverts}
    \cup {Slice(a, 0, 16) \o <<255, 255, 255, 255>> : a \in Adverts}

(***************************************************************************)
(* DecryptServiceData and trialDecrypt, statement by statement.            *)
(***************************************************************************)
NotReturned == [returned |-> FALSE, data |-> NoData, err |-> NoError]

InitBle ==
    /\ d_pc = "idle"
    /\ d_caller = "none"
    /\ qrSecret = <<>>
    /\ encryptedData = <<>>
    /\ eidKey = <<>>
    /\ plaintext = <<>>
    /\ ok = FALSE
    /\ d_ret = NotReturned
    /\ d_ops = <<>>
    /\ d_flipped = FALSE
    /\ d_log = <<>>

\* One line of log.Printf.
Logged(text, bytes) == [text |-> text, bytes |-> bytes]

\* NewCableV2Decryptor(secret).DecryptServiceData(data) is entered.
Enter(caller, secret, key, data, flipped) ==
    /\ d_pc' = IF caller = "DecryptServiceData" THEN "length" ELSE "trialLength"
    /\ d_caller' = caller
    /\ qrSecret' = secret
    /\ encryptedData' = data
    /\ eidKey' = key
    /\ plaintext' = Zeros(CableV2PlaintextLength)
    /\ ok' = FALSE
    /\ d_ret' = NotReturned
    /\ d_ops' = <<>>
    /\ d_flipped' = flipped
    /\ d_log' = <<>>
    /\ UNCHANGED <<tunnelVars, keyVars, codecVars, laterVars>>

DecryptServiceDataCall ==
    /\ d_pc = "idle"
    /\ \E secret \in QRSecrets, data \in Candidates :
          Enter("DecryptServiceData", secret, Zeros(CableV2EIDKeyLength), data, FALSE)

\* The same decryptor is handed the candidate it has just accepted with one bit changed.
DecryptServiceDataFlipped ==
    /\ d_pc = "done"
    /\ d_caller = "DecryptServiceData"
    /\ d_ret.returned /\ d_ret.err = NoError
    /\ \E offset \in 0..(Len(encryptedData) - 1), bit \in 0..7 :
          Enter("DecryptServiceData", qrSecret, Zeros(CableV2EIDKeyLength),
                FlipBit(encryptedData, offset, bit), TRUE)

\* trialDecrypt called with an EID key of the caller's, as TestTrialDecryptFunction does.
TrialDecryptCall ==
    /\ d_pc = "idle"
    /\ \E key \in EIDKeys, data \in Candidates :
          Enter("trialDecrypt", <<>>, key, data, FALSE)

\* Only a candidate that is too short is refused.
invalidLength_ShortOnly(data) == Len(data) < CableV2AdvertLength

\* if len(encryptedData) != CableV2AdvertLength { return nil, error }
invalidLength(data) == Len(data) # CableV2AdvertLength

DecryptCheckLength ==
    /\ d_pc = "length"
    /\ IF invalidLength(encryptedData)
       THEN /\ d_ret' = [returned |-> TRUE, data |-> NoData,
                         err |-> <<"invalid encrypted data length", CableV2AdvertLength, Len(encryptedData)>>]
            /\ d_pc' = "done"
            /\ d_log' = d_log
       ELSE /\ d_ret' = d_ret
            /\ d_pc' = "derive"
            /\ d_log' = Append(d_log, Logged("Decrypting caBLE v2 service data", encryptedData))
    /\ UNCHANGED <<d_caller, qrSecret, encryptedData, eidKey, plaintext, ok, d_ops, d_flipped>>
    /\ UNCHANGED <<tunnelVars, keyVars, codecVars, laterVars>>

\* d.derive(eidKey[:], d.qrSecret, nil, keyPurposeEIDKey)
DecryptDerive ==
    /\ d_pc = "derive"
    /\ LET r == derive(CableV2EIDKeyLength, qrSecret, <<>>, keyPurposeEIDKey)
       IN  /\ d_ops' = Append(d_ops, "hkdf")
           /\ IF r.err # NoError
              THEN /\ d_ret' = [returned |-> TRUE, data |-> NoData,
                                err |-> <<"failed to derive EID key">> \o r.err]
                   /\ d_pc' = "done"
                   /\ eidKey' = eidKey
                   /\ d_log' = d_log
              ELSE /\ d_ret' = d_ret
                   /\ d_pc' = "trialLength"
                   /\ eidKey' = r.output
                   /\ d_log' = Append(d_log, Logged("Derived EID key (first 8 bytes)", SubSeq(r.output, 1, 8)))
    /\ UNCHANGED <<d_caller, qrSecret, encryptedData, plaintext, ok, d_flipped>>
    /\ UNCHANGED <<tunnelVars, keyVars, codecVars, laterVars>>

\* trialDecrypt: what it logs after splitting the EID key, around the tag
\* comparison, and around the block decryption.
trialKeyLines(key) ==
    <<Logged("AES key (first 8 bytes)", SubSeq(key, 1, 8)),
      Logged("HMAC key (first 8 bytes)", SubSeq(key, CableV2AESKeyLength + 1, CableV2AESKeyLength + 8))>>

trialTagLines(key, candidateAdvert, matched) ==
    <<Logged("First 16 bytes", Slice(candidateAdvert, 0, 16)),
      Logged("Last 4 bytes (tag)", Slice(candidateAdvert, 16, Len(candidateAdvert))),
      Logged("Expected HMAC tag (first 4 bytes)", SubSeq(expectedTag(key, candidateAdvert), 1, 4)),
      Logged(IF matched THEN "HMAC verification successful" ELSE "HMAC verification failed", <<>>)>>

trialBlockLines(p) ==
    <<Logged("Decrypted plaintext", p),
      IF reservedBitsAreZero(p)
      THEN Logged("Reserved bits validation successful", <<>>)
      ELSE Logged("Reserved bits validation failed", <<p[1]>>)>>

\* Where trialDecrypt returns to.
afterTrial == IF d_caller = "DecryptServiceData" THEN "return" ELSE "done"

\* trialDecrypt: if len(candidateAdvert) != CableV2AdvertLength { return zeros, false }
TrialCheckLength ==
    /\ d_pc = "trialLength"
    /\ IF invalidLength(encryptedData)
       THEN /\ d_pc' = afterTrial
            /\ d_log' = Append(d_log, Logged("Invalid advert length", <<>>))
       ELSE /\ d_pc' = "trialTag"
            /\ d_log' = d_log
    /\ plaintext' = Zeros(CableV2PlaintextLength)
    /\ ok' = FALSE
    /\ UNCHANGED <<d_caller, qrSecret, encryptedData, eidKey, d_ret, d_ops, d_flipped>>
    /\ UNCHANGED <<tunnelVars, keyVars, codecVars, laterVars>>

\* The block is decrypted whatever the tag comparison gave.
TrialVerifyTag_DecryptAnyway ==
    /\ d_pc = "trialTag"
    /\ d_ops' = Append(d_ops, "hmac")
    /\ d_log' = d_log \o trialKeyLines(eidKey) \o trialTagLines(eidKey, encryptedData, TRUE)
    /\ d_pc' = "trialBlock"
    /\ plaintext' = Zeros(CableV2PlaintextLength)
    /\ ok' = FALSE
    /\ UNCHANGED <<d_caller, qrSecret, encryptedData, eidKey, d_ret, d_flipped>>
    /\ UNCHANGED <<tunnelVars, keyVars, codecVars, laterVars>>

\* trialDecrypt: the HMAC over candidateAdvert[:16] and the comparison of its
\* first 4 bytes with candidateAdvert[16:].
TrialVerifyTag ==
    /\ d_pc = "trialTag"
    /\ d_ops' = Append(d_ops, "hmac")
    /\ d_log' = d_log \o trialKeyLines(eidKey) \o trialTagLines(eidKey, encryptedData, tagMatches(eidKey, encryptedData))
    /\ IF tagMatches(eidKey, encryptedData)
       THEN d_pc' = "trialBlock"
       ELSE d_pc' = afterTrial
    /\ plaintext' = Zeros(CableV2PlaintextLength)
    /\ ok' = FALSE
    /\ UNCHANGED <<d_caller, qrSecret, encryptedData, eidKey, d_ret, d_flipped>>
    /\ UNCHANGED <<tunnelVars, keyVars, codecVars, laterVars>>

\* The reserved-bits check is left out.
trialResult_NoReservedCheck(p) == [plaintext |-> p, ok |-> TRUE]

\* trialDecrypt: block.Decrypt(plaintext[:], candidateAdvert[:16]) and the
\* reserved-bits check.
trialResult(p) ==
    IF reservedBitsAreZero(p)
    THEN [plaintext |-> p, ok |-> TRUE]
    ELSE [plaintext |-> Zeros(CableV2PlaintextLength), ok |-> FALSE]

TrialDecryptBlock ==
    /\ d_pc = "trialBlock"
    /\ d_ops' = Append(d_ops, "aes")
    /\ d_log' = d_log \o trialBlockLines(decryptBlock(eidKey, encryptedData))
    /\ LET r == trialResult(decryptBlock(eidKey, encryptedData))
       IN  /\ plaintext' = r.plaintext
           /\ ok' = r.ok
    /\ d_pc' = afterTrial
    /\ UNCHANGED <<d_caller, qrSecret, encryptedData, eidKey, d_ret, d_flipped>>
    /\ UNCHANGED <<tunnelVars, keyVars, codecVars, laterVars>>

\* DecryptServiceData: if !ok { return nil, error }; return plaintext[:], nil
decryptResult(p, success) ==
    IF ~success
    THEN [returned |-> TRUE, data |-> NoData, err |-> <<"caBLE v2 authentication/decryption failed">>]
    ELSE [returned |-> TRUE, data |-> p, err |-> NoError]

\* The error tells a tag mismatch from a reserved-bits violation.
DecryptReturn_Diagnostic ==
    /\ d_pc = "return"
    /\ d_ret' = IF ~ok /\ "aes" \in Range(d_ops)
                THEN [returned |-> TRUE, data |-> NoData, err |-> <<"reserved bits violation">>]
                ELSE decryptResult(plaintext, ok)
    /\ d_log' = IF ok THEN Append(d_log, Logged("Successfully decrypted caBLE v2 service data", plaintext))
                ELSE d_log
    /\ d_pc' = "done"
    /\ UNCHANGED <<d_caller, qrSecret, encryptedData, eidKey, plaintext, ok, d_ops, d_flipped>>
    /\ UNCHANGED <<tunnelVars, keyVars, codecVars, laterVars>>

DecryptReturn ==
    /\ d_pc = "return"
    /\ d_ret' = decryptResult(plaintext, ok)
    /\ d_log' = IF ok THEN Append(d_log, Logged("Successfully decrypted caBLE v2 service data", plaintext))
                ELSE d_log
    /\ d_pc' = "done"
    /\ UNCHANGED <<d_caller, qrSecret, encryptedData, eidKey, plaintext, ok, d_ops, d_flipped>>
    /\ UNCHANGED <<tunnelVars, keyVars, codecVars, laterVars>>

\* The caller is done with the result; the decryptor and the call's locals are dropped.
DecryptorDropped ==
    /\ d_pc = "done"
    /\ d_pc' = "idle"
    /\ d_caller' = "none"
    /\ qrSecret' = <<>>
    /\ encryptedData' = <<>>
    /\ eidKey' = <<>>
    /\ plaintext' = <<>>
    /\ ok' = FALSE
    /\ d_ret' = NotReturned
    /\ d_ops' = <<>>
    /\ d_flipped' = FALSE
    /\ d_log' = <<>>
    /\ UNCHANGED <<tunnelVars, keyVars, codecVars, laterVars>>

NextBle ==
    \/ DecryptServiceDataCall
    \/ DecryptServiceDataFlipped
    \/ TrialDecryptCall
    \/ DecryptCheckLength
    \/ DecryptDerive
    \/ TrialCheckLength
    \/ TrialVerifyTag
    \/ TrialDecryptBlock
    \/ DecryptReturn
    \/ DecryptorDropped

(***************************************************************************)
(* Stand-in for chacha20poly1305: a stream cipher keyed by (key, nonce)    *)
(* and a 16-byte tag over key, nonce, associated data and ciphertext.      *)
(***************************************************************************)
RECURSIVE KeyStream(_, _, _)
KeyStream(key, nonce, blocks) ==
    IF blocks = 0 THEN <<>>
    ELSE KeyStream(key, nonce, blocks - 1) \o SHA256(key \o nonce \o <<blocks>>)

AEADTag(key, nonce, ct, ad) == SubSeq(SHA256(key \o nonce \o <<Len(ad)>> \o ad \o ct), 1, 16)

\* cipher.Seal(nil, nonce, pt, ad): the ciphertext followed by the tag.
AEADSeal(key, nonce, pt, ad) ==
    LET ks == KeyStream(key, nonce, (Len(pt) + 31) \div 32)
        ct == [i \in 1..Len(pt) |-> (pt[i] + ks[i]) % 256]
    IN  ct \o AEADTag(key, nonce, ct, ad)

\* cipher.Open(nil, nonce, box, ad)
AEADOpen(key, nonce, box, ad) ==
    IF Len(box) < 16 THEN [ok |-> FALSE, plaintext |-> <<>>]
    ELSE LET ct == SubSeq(box, 1, Len(box) - 16)
             ks == KeyStream(key, nonce, (Len(ct) + 31) \div 32)
         IN  IF SubSeq(box, Len(box) - 15, Len(box)) # AEADTag(key, nonce, ct, ad)
             THEN [ok |-> FALSE, plaintext |-> <<>>]
             ELSE [ok |-> TRUE, plaintext |-> [i \in 1..Len(ct) |-> (ct[i] + 256 - ks[i]) % 256]]

(***************************************************************************)
(* tunnel.Client: NewClient, attemptConnection, performHandshake.          *)
(***************************************************************************)
\* The handshake key is derived under the info of purpose 2.
LabelHandshake_PurposeTwo == <<2, 0, 0, 0>>

\* "caBLE v2 handshake", "caBLE v2 session", "desktop-handshake-v2"
LabelHandshake == <<99, 97, 66, 76, 69, 32, 118, 50, 32, 104, 97, 110, 100, 115, 104, 97, 107, 101>>
LabelSession == <<99, 97, 66, 76, 69, 32, 118, 50, 32, 115, 101, 115, 115, 105, 111, 110>>
DesktopPayload == <<100, 101, 115, 107, 116, 111, 112, 45, 104, 97, 110, 100, 115, 104, 97, 107, 101, 45, 118, 50>>
\* What the phone seals in its response; the desktop only logs it.
PhonePayload == <<112, 104, 111, 110, 101, 45, 104, 97, 110, 100, 115, 104, 97, 107, 101, 45, 118, 50>>

NoURL == [scheme |-> "", host |-> ""]
NoClient == [tunnelURL |-> NoURL, privateKey |-> <<>>, publicKey |-> <<>>, qrSecret |-> <<>>,
             tunnelID |-> <<>>, routingID |-> <<>>, handshakeKey |-> <<>>]
NoConnection == [established |-> FALSE, encryptKey |-> <<>>, decryptKey |-> <<>>, sequenceNo |-> 0]
NoKeys == [encryptKey |-> <<>>, decryptKey |-> <<>>]

\* deriveTunnelID: HKDF with the purpose 2 as 4-byte little-endian info, 16 bytes.
deriveTunnelID(secret) == HKDF(secret, <<>>, <<2, 0, 0, 0>>, 16)

\* NewClient: the length checks, then the client with its derived tunnel ID.
NewClientResult(tunnelURL, privateKey, publicKey, secret) ==
    IF Len(privateKey) # 32 THEN [err |-> <<"private key must be 32 bytes", Len(privateKey)>>, client |-> NoClient]
    ELSE IF Len(publicKey) # 33 THEN [err |-> <<"public key must be 33 bytes", Len(publicKey)>>, client |-> NoClient]
    ELSE IF Len(secret) # 16 THEN [err |-> <<"QR secret must be 16 bytes", Len(secret)>>, client |-> NoClient]
    ELSE [err |-> NoError,
          client |-> [tunnelURL |-> tunnelURL, privateKey |-> privateKey, publicKey |-> publicKey,
                      qrSecret |-> secret, tunnelID |-> deriveTunnelID(secret),
                      routingID |-> <<>>, handshakeKey |-> <<>>]]

\* hex.EncodeToString: two lower-case hexadecimal digits per byte, the high
\* nibble first.
HexDigits == <<"0", "1", "2", "3", "4", "5", "6", "7", "8", "9", "a", "b", "c", "d", "e", "f">>
hexEncodeToString(b) ==
    [i \in 1..(2 * Len(b)) |->
        LET byte == b[(i + 1) \div 2]
        IN  HexDigits[(IF i % 2 = 1 THEN byte \div 16 ELSE byte % 16) + 1]]

\* WaitForConnection: the "wss://" or "ws://" prefix of tunnelURL is trimmed,
\* and the URL is wss://<domain>/cable/connect/<routing ID hex>/<tunnel ID hex>.
connectURL(c) ==
    LET domain == c.tunnelURL.host
    IN  <<"wss://", domain, "/cable/connect/", hexEncodeToString(c.routingID), "/",
          hexEncodeToString(c.tunnelID)>>

\* deriveHandshakeKey
deriveHandshakeKey(secret) == HKDF(secret, <<>>, LabelHandshake, 32)

\* createInitialHandshakeMessage: publicKey || nonce || Seal(handshakeKey, nonce, payload, publicKey)
createInitialHandshakeMessage(c, nonce) ==
    c.publicKey \o nonce \o AEADSeal(c.handshakeKey, nonce, DesktopPayload, c.publicKey)

\* deriveSessionKeys: two successive 32-byte reads of one HKDF stream whose
\* info is the label, the own public key and the peer's public key.
deriveSessionKeys(handshakeKey, publicKey, phonePublicKey) ==
    LET sharedInfo == publicKey \o phonePublicKey
        stream == HKDF(handshakeKey, <<>>, LabelSession \o sharedInfo, 64)
    IN  [encryptKey |-> Slice(stream, 0, 32), decryptKey |-> Slice(stream, 32, 64)]

\* processHandshakeResponse
processHandshakeResponse(c, resp) ==
    IF Len(resp) < 45
    THEN [err |-> <<"handshake response too short", Len(resp)>>, keys |-> NoKeys, opened |-> FALSE]
    ELSE LET phonePublicKey == Slice(resp, 0, 33)
             nonce == Slice(resp, 33, 45)
             encryptedPayload == Slice(resp, 45, Len(resp))
             payload == AEADOpen(c.handshakeKey, nonce, encryptedPayload, phonePublicKey)
         IN  IF ~payload.ok
             THEN [err |-> <<"decryption failed">>, keys |-> NoKeys, opened |-> TRUE]
             ELSE [err |-> NoError, keys |-> deriveSessionKeys(c.handshakeKey, c.publicKey, phonePublicKey),
                   opened |-> TRUE]

\* binary.LittleEndian.PutUint64 of a counter below 2^31.
PutUint64(v) ==
    [i \in 1..8 |-> IF i <= 4 THEN (v \div (256 ^ (i - 1))) % 256 ELSE 0]

\* The counter is left as it was.
encryptMessage_NoIncrement(conn, message) ==
    LET nonce == PutUint64(conn.sequenceNo) \o Zeros(4)
    IN  [conn |-> conn,
         frame |-> nonce \o AEADSeal(conn.encryptKey, nonce, message, <<>>)]

\* encryptMessage: the nonce is the counter, the counter is incremented, the
\* message is sealed, the nonce is prepended.
encryptMessage(conn, message) ==
    LET nonce == PutUint64(conn.sequenceNo) \o Zeros(4)
    IN  [conn |-> [conn EXCEPT !.sequenceNo = @ + 1],
         frame |-> nonce \o AEADSeal(conn.encryptKey, nonce, message, <<>>)]

(***************************************************************************)
(* tunnel.Connection: ReadMessage and decryptMessage; what                 *)
(* runHybridTransport hands to the tunnel client.                           *)
(***************************************************************************)
\* A frame must carry at least one byte of ciphertext besides nonce and tag.
decryptMessage_OneByteMinimum(conn, encryptedMessage) ==
    IF Len(encryptedMessage) < 29
    THEN [err |-> <<"encrypted message too short", Len(encryptedMessage)>>, plaintext |-> NoData, opened |-> FALSE]
    ELSE LET nonce == Slice(encryptedMessage, 0, 12)
             ciphertext == Slice(encryptedMessage, 12, Len(encryptedMessage))
             r == AEADOpen(conn.decryptKey, nonce, ciphertext, <<>>)
         IN  IF ~r.ok
             THEN [err |-> <<"decryption failed">>, plaintext |-> NoData, opened |-> TRUE]
             ELSE [err |-> NoError, plaintext |-> r.plaintext, opened |-> TRUE]

\* A frame that fails to open is handed back as it came, with the error.
decryptMessage_DataOnFailure(conn, encryptedMessage) ==
    IF Len(encryptedMessage) < 28
    THEN [err |-> <<"encrypted message too short", Len(encryptedMessage)>>, plaintext |-> NoData, opened |-> FALSE]
    ELSE LET nonce == Slice(encryptedMessage, 0, 12)
             ciphertext == Slice(encryptedMessage, 12, Len(encryptedMessage))
             r == AEADOpen(conn.decryptKey, nonce, ciphertext, <<>>)
         IN  IF ~r.ok
             THEN [err |-> <<"decryption failed">>, plaintext |-> ciphertext, opened |-> TRUE]
             ELSE [err |-> NoError, plaintext |-> r.plaintext, opened |-> TRUE]

\* decryptMessage: the length check, then cipher.Open under decryptKey with
\* the first 12 bytes as nonce and no associated data.
decryptMessage(conn, encryptedMessage) ==
    IF Len(encryptedMessage) < 28
    THEN [err |-> <<"encrypted message too short", Len(encryptedMessage)>>, plaintext |-> NoData, opened |-> FALSE]
    ELSE LET nonce == Slice(encryptedMessage, 0, 12)
             ciphertext == Slice(encryptedMessage, 12, Len(encryptedMessage))
             r == AEADOpen(conn.decryptKey, nonce, ciphertext, <<>>)
         IN  IF ~r.ok
             THEN [err |-> <<"decryption failed">>, plaintext |-> NoData, opened |-> TRUE]
             ELSE [err |-> NoError, plaintext |-> r.plaintext, opened |-> TRUE]

\* Connection.ReadMessage: incoming is what c.conn.ReadMessage() delivered
\* within the 10-second deadline, [ok |-> FALSE] when it delivered nothing.
ReadMessage(conn, incoming) ==
    IF ~conn.established
    THEN [err |-> <<"connection not established">>, plaintext |-> NoData, opened |-> FALSE]
    ELSE IF ~incoming.ok
    THEN [err |-> <<"failed to read message">>, plaintext |-> NoData, opened |-> FALSE]
    ELSE decryptMessage(conn, incoming.frame)

\* The connection nonce of the advertisement becomes the tunnel ID.
SetTunnelInfoResult_NonceAsTunnelID(c, routingID, connectionNonce) ==
    [c EXCEPT !.routingID = routingID, !.tunnelID = connectionNonce]

\* Client.SetTunnelInfo(routingID, connectionNonce)
SetTunnelInfoResult(c, routingID, connectionNonce) == [c EXCEPT !.routingID = routingID]

\* compressECKey: 0x02 or 0x03 by the parity of Y, then X.Bytes() (which
\* has no leading zero byte) right-aligned in 32 bytes.
compressECKey(publicKey) ==
    <<IF publicKey.odd THEN 3 ELSE 2>> \o Zeros(32 - Len(publicKey.X)) \o publicKey.X

\* The public key is cut to the 32 bytes the legacy format wants.
GenerateQRData_LegacyKey(publicKey, secret, tunnelID) ==
    [PublicKey |-> SubSeq(publicKey, 2, 33), QRSecret |-> secret, TunnelID |-> tunnelID, PrivateKey |-> <<>>,
     TunnelURL |-> [scheme |-> "", host |-> "cable.ua5v.com"]]

\* qrcode.GenerateQRData: the compressed identity key, the QR secret, 16
\* random bytes of tunnel ID, no private key bytes, and the default domain.
GenerateQRData(publicKey, secret, tunnelID) ==
    [PublicKey |-> publicKey, QRSecret |-> secret, TunnelID |-> tunnelID, PrivateKey |-> <<>>,
     TunnelURL |-> [scheme |-> "", host |-> "cable.ua5v.com"]]

\* ValidateQRData (legacy format)
ValidateQRData(qrData) ==
    IF Len(qrData.PublicKey) # 32 THEN <<"invalid public key length: expected 32", Len(qrData.PublicKey)>>
    ELSE IF Len(qrData.QRSecret) # 32 THEN <<"invalid QR secret length: expected 32", Len(qrData.QRSecret)>>
    ELSE IF Len(qrData.TunnelID) # 16 THEN <<"invalid tunnel ID length: expected 16", Len(qrData.TunnelID)>>
    ELSE IF Len(qrData.PrivateKey) # 32 THEN <<"invalid private key length: expected 32", Len(qrData.PrivateKey)>>
    ELSE NoError

\* The tunnel ID is checked as well.
ValidateQRDataCBOR_TunnelIDToo(qrData) ==
    IF Len(qrData.PublicKey) # 33 THEN <<"invalid public key length: expected 33", Len(qrData.PublicKey)>>
    ELSE IF Len(qrData.QRSecret) # 16 THEN <<"invalid QR secret length: expected 16", Len(qrData.QRSecret)>>
    ELSE IF Len(qrData.TunnelID) # 16 THEN <<"invalid tunnel ID length: expected 16", Len(qrData.TunnelID)>>
    ELSE NoError

\* ValidateQRDataCBOR
ValidateQRDataCBOR(qrData) ==
    IF Len(qrData.PublicKey) # 33 THEN <<"invalid public key length: expected 33", Len(qrData.PublicKey)>>
    ELSE IF Len(qrData.QRSecret) # 16 THEN <<"invalid QR secret length: expected 16", Len(qrData.QRSecret)>>
    ELSE NoError

\* The two domain bytes are read high byte first.
UnpackDecryptedAdvert_BigEndianDomain(p) ==
    [nonce |-> Slice(p, 1, 11), routingID |-> Slice(p, 11, 14),
     encodedTunnelServerDomain |-> p[15] * 256 + p[16]]

\* UnpackDecryptedAdvert: nonce plaintext[1:11], routing ID plaintext[11:14],
\* uint16(plaintext[14]) | uint16(plaintext[15]) << 8.
UnpackDecryptedAdvert(p) ==
    [nonce |-> Slice(p, 1, 11), routingID |-> Slice(p, 11, 14),
     encodedTunnelServerDomain |-> p[15] + p[16] * 256]

\* ParseDecryptedServiceData: flags (1), connection nonce (10), routing ID (3),
\* tunnel service (2).
ParseDecryptedServiceData(decryptedData) ==
    IF Len(decryptedData) # CableV2PlaintextLength
    THEN [err |-> <<"invalid decrypted data length", Len(decryptedData)>>,
          nonce |-> <<>>, routingID |-> <<>>, tunnelService |-> <<>>]
    ELSE [err |-> NoError, nonce |-> Slice(decryptedData, 1, 11),
          routingID |-> Slice(decryptedData, 11, 14), tunnelService |-> Slice(decryptedData, 14, 16)]

\* Scanner.getTunnelURL
getTunnelURL(tunnelService) ==
    IF Len(tunnelService) >= 2 /\ tunnelService[1] = 1 THEN "cable.auth.com" ELSE "cable.ua5v.com"

\* The TunnelInfo the scanner builds from a decrypted advertisement.
TunnelInfoOf(decryptedData) ==
    LET parsed == ParseDecryptedServiceData(decryptedData)
        tunnelService == parsed.tunnelService
    IN  [TunnelURL |-> [scheme |-> "", host |-> getTunnelURL(tunnelService)],
         ConnectionNonce |-> parsed.nonce, RoutingID |-> parsed.routingID,
         TunnelServiceID |-> tunnelService,
         EncodedTunnelDomain |-> IF Len(tunnelService) >= 2 THEN tunnelService[1] + tunnelService[2] * 256 ELSE 0]

\* processCTAP2Message: ParseCTAP2Message refuses the empty message; every
\* other message is answered with the one status byte of its command.
ctap2Response(message) ==
    IF message = <<>> THEN [respond |-> FALSE, response |-> <<>>]
    ELSE [respond |-> TRUE,
          response |-> IF message[1] \in {1, 2, 4, 7} THEN <<0>>
                       ELSE IF message[1] = 6 THEN <<53>>
                       ELSE <<1>>]

(***************************************************************************)
(* The inputs of the tunnel.                                               *)
(***************************************************************************)
MaxSends == 2
MaxReplies == 1

PublicKeyOf(i) == <<2 + (i % 2)>> \o [j \in 1..32 |-> (59 * i + 13 * j) % 256]
PrivateKeyOf(i) == [j \in 1..32 |-> (83 * i + 17 * j) % 256]
NonceOf(i) == [j \in 1..12 |-> (67 * i + 19 * j) % 256]

DesktopKey == PublicKeyOf(1)
PhoneKeys == {PublicKeyOf(2), PublicKeyOf(3)}
RelayKey == PublicKeyOf(4)
\* A 32-byte key of the relay's own making.
RelaySecretKey == PrivateKeyOf(9)
DesktopNonces == {NonceOf(1), NonceOf(2)}
PhoneNonce == NonceOf(3)

\* The phone has scanned the QR code: it holds the QR secret and answers
\* with its public key, a nonce and a payload sealed under the handshake key.
PhoneResponses(secret) ==
    {pk \o PhoneNonce \o AEADSeal(deriveHandshakeKey(secret), PhoneNonce, PhonePayload, pk) : pk \in PhoneKeys}

\* The relay does not hold the QR secret.  What it can deliver instead of the
\* phone's answer is built from the messages it has seen and from keys of its own.
RelayResponses(observed) ==
    LET seen == Range(observed)
    IN  seen
        \cup {Slice(m, 0, n) : m \in seen, n \in {0, 44, 45, 60}}
        \cup {RelayKey \o Slice(m, 33, Len(m)) : m \in seen}
        \cup {FlipBit(m, 33, 0) : m \in seen}
        \cup {FlipBit(m, Len(m) - 1, 7) : m \in seen}
        \cup {RelayKey \o PhoneNonce \o AEADSeal(RelaySecretKey, PhoneNonce, PhonePayload, RelayKey)}
        \cup {DesktopKey \o PhoneNonce \o AEADSeal(RelaySecretKey, PhoneNonce, PhonePayload, DesktopKey)}

\* The tunnel service URL a direct caller hands to NewClient, scheme prefix included.
TunnelURLs == {[scheme |-> "wss://", host |-> "cable.auth.com"]}

\* What the scanner hands to runHybridTransport: the TunnelInfo of an advert
\* that passed the trial decryption.
TunnelInfos == {TunnelInfoOf(p) : p \in {q \in Plaintexts : reservedBitsAreZero(q)}}
RoutingIDs == {ti.RoutingID : ti \in TunnelInfos}
ConnectionNonces == {ti.ConnectionNonce : ti \in TunnelInfos}

\* What the peer sends over the tunnel: messages of length 0, 1 and more than
\* one cipher block, under send counters that exercise both low bytes.
PeerLong == <<4>> \o [j \in 1..69 |-> (5 * j) % 256]
PeerMessages == {<<>>, <<4>>, PeerLong}
PeerCounters == {0, 258}

\* What c.conn.ReadMessage() can deliver to a Connection: frames sealed under
\* its receive key, a frame cut below nonce+tag, a frame with a changed tag,
\* a frame sealed under the encrypt key the peer's own deriveSessionKeys
\* gives, or nothing before the deadline.
Incoming(conn, peer) ==
    LET seal(key, k, m) == encryptMessage([conn EXCEPT !.encryptKey = key, !.sequenceNo = k], m).frame
        base == seal(conn.decryptKey, 0, <<4>>)
    IN  {[ok |-> TRUE, kind |-> "peer", counter |-> k, message |-> m, frame |-> seal(conn.decryptKey, k, m)] :
            k \in PeerCounters, m \in PeerMessages}
        \cup {[ok |-> TRUE, kind |-> "short", counter |-> 0, message |-> <<4>>, frame |-> Slice(base, 0, 27)],
              [ok |-> TRUE, kind |-> "tampered", counter |-> 0, message |-> <<4>>,
               frame |-> FlipBit(base, Len(base) - 1, 0)],
              [ok |-> TRUE, kind |-> "peerDerived", counter |-> 0, message |-> <<4>>,
               frame |-> seal(peer.encryptKey, 0, <<4>>)],
              [ok |-> FALSE, kind |-> "none", counter |-> 0, message |-> <<>>, frame |-> <<>>]}

\* Messages handed to WriteMessage: one byte, and more than one cipher block.
Messages == {<<161>>, [j \in 1..70 |-> (3 * j) % 256]}

InitTunnel ==
    /\ t_pc = "new"
    /\ client = NoClient
    /\ wsOpen = FALSE
    /\ relay = <<>>
    /\ response = <<>>
    /\ respFrom = "none"
    /\ connection = NoConnection
    /\ peerKeys = NoKeys
    /\ sealed = <<>>
    /\ ctx = "live"
    /\ t_caller = "none"
    /\ t_err = NoError
    /\ t_ops = <<>>
    /\ wsURL = <<>>
    /\ received = <<>>

\* tunnel.NewClient(tunnelURL, privateKey, publicKey, qrSecret)
NewClient ==
    /\ t_pc = "new"
    /\ \E tunnelURL \in TunnelURLs, privateKey \in {PrivateKeyOf(1), <<>>}, secret \in QRSecrets :
          LET r == NewClientResult(tunnelURL, privateKey, DesktopKey, secret)
          IN  /\ client' = r.client
              /\ t_err' = r.err
              /\ t_pc' = IF r.err = NoError THEN "client" ELSE "rejected"
    /\ t_caller' = "direct"
    /\ UNCHANGED <<wsOpen, relay, response, respFrom, connection, peerKeys, sealed, ctx, t_ops, wsURL, received>>
    /\ UNCHANGED <<bleVars, keyVars, codecVars, laterVars>>

\* WaitForConnection up to attemptConnection's dialer.Dial(wsURL, nil); when
\* the dial fails the only URL pattern has failed and WaitForConnection
\* returns its error.
Dial ==
    /\ t_pc = "client"
    /\ wsURL' = connectURL(client)
    /\ \E dialed \in BOOLEAN :
          /\ wsOpen' = dialed
          /\ t_pc' = IF dialed THEN "dialed" ELSE "failed"
          /\ t_err' = IF dialed THEN t_err ELSE <<"failed to connect to tunnel service">>
    /\ UNCHANGED <<client, relay, response, respFrom, connection, peerKeys, sealed, ctx, t_caller, t_ops, received>>
    /\ UNCHANGED <<bleVars, keyVars, codecVars, laterVars>>

\* The desktop waits for the peer without having written its initial message.
PerformHandshakeSend_NoWrite ==
    /\ t_pc = "dialed"
    /\ client' = [client EXCEPT !.handshakeKey = deriveHandshakeKey(client.qrSecret)]
    /\ t_pc' = "sentInitial"
    /\ UNCHANGED <<wsOpen, relay, response, respFrom, connection, peerKeys, sealed,
                   ctx, t_caller, t_err, t_ops, wsURL, received>>
    /\ UNCHANGED <<bleVars, keyVars, codecVars, laterVars>>

\* performHandshake up to the blocking read: the handshake key, the initial
\* message, the write to the relay.
PerformHandshakeSend ==
    /\ t_pc = "dialed"
    /\ \E nonce \in DesktopNonces, written \in BOOLEAN :
          LET c == [client EXCEPT !.handshakeKey = deriveHandshakeKey(client.qrSecret)]
          IN  /\ client' = c
              /\ IF written
                 THEN /\ relay' = Append(relay, createInitialHandshakeMessage(c, nonce))
                      /\ t_pc' = "sentInitial"
                      /\ wsOpen' = wsOpen
                      /\ t_err' = t_err
                 ELSE /\ relay' = relay
                      /\ t_pc' = "failed"
                      /\ wsOpen' = FALSE
                      /\ t_err' = <<"failed to send initial handshake">>
    /\ t_ops' = Append(t_ops, "write")
    /\ UNCHANGED <<response, respFrom, connection, peerKeys, sealed, ctx, t_caller, wsURL, received>>
    /\ UNCHANGED <<bleVars, keyVars, codecVars, laterVars>>

\* attemptConnection returns the handshake error without closing the websocket.
HandshakeReceive_LeftOpen(resp, from) ==
    LET r == processHandshakeResponse(client, resp)
    IN  /\ response' = resp
        /\ respFrom' = from
        /\ t_err' = r.err
        /\ t_ops' = t_ops \o <<"read">> \o (IF r.opened THEN <<"open">> ELSE <<>>)
                          \o (IF r.err = NoError THEN <<"keys">> ELSE <<>>)
        /\ IF r.err = NoError
           THEN /\ connection' = [established |-> TRUE, encryptKey |-> r.keys.encryptKey,
                                  decryptKey |-> r.keys.decryptKey, sequenceNo |-> 0]
                /\ peerKeys' = deriveSessionKeys(client.handshakeKey, Slice(resp, 0, 33), client.publicKey)
                /\ t_pc' = "completed"
           ELSE /\ connection' = connection
                /\ peerKeys' = peerKeys
                /\ t_pc' = "failed"
        /\ UNCHANGED <<wsOpen, client, relay, sealed, ctx, t_caller, wsURL, received>>
        /\ UNCHANGED <<bleVars, keyVars, codecVars, laterVars>>

\* performHandshake from the read of the response on: processHandshakeResponse
\* and the Connection, or the error on which attemptConnection closes the websocket.
HandshakeReceive(resp, from) ==
    LET r == processHandshakeResponse(client, resp)
    IN  /\ response' = resp
        /\ respFrom' = from
        /\ t_err' = r.err
        /\ t_ops' = t_ops \o <<"read">> \o (IF r.opened THEN <<"open">> ELSE <<>>)
                          \o (IF r.err = NoError THEN <<"keys">> ELSE <<>>)
        /\ IF r.err = NoError
           THEN /\ connection' = [established |-> TRUE, encryptKey |-> r.keys.encryptKey,
                                  decryptKey |-> r.keys.decryptKey, sequenceNo |-> 0]
                /\ peerKeys' = deriveSessionKeys(client.handshakeKey, Slice(resp, 0, 33), client.publicKey)
                /\ t_pc' = "completed"
                /\ wsOpen' = wsOpen
           ELSE /\ connection' = connection
                /\ peerKeys' = peerKeys
                /\ t_pc' = "failed"
                /\ wsOpen' = FALSE
        /\ UNCHANGED <<client, relay, sealed, ctx, t_caller, wsURL, received>>
        /\ UNCHANGED <<bleVars, keyVars, codecVars, laterVars>>

PerformHandshakeReceivePhone ==
    /\ t_pc = "sentInitial"
    /\ \E resp \in PhoneResponses(client.qrSecret) : HandshakeReceive(resp, "phone")

PerformHandshakeReceiveRelay ==
    /\ t_pc = "sentInitial"
    /\ \E resp \in RelayResponses(relay) : HandshakeReceive(resp, "relay")

\* c.conn.ReadMessage() fails.
PerformHandshakeReadError ==
    /\ t_pc = "sentInitial"
    /\ t_pc' = "failed"
    /\ wsOpen' = FALSE
    /\ t_err' = <<"failed to read handshake response">>
    /\ t_ops' = Append(t_ops, "read")
    /\ UNCHANGED <<client, relay, response, respFrom, connection, peerKeys, sealed, ctx, t_caller, wsURL, received>>
    /\ UNCHANGED <<bleVars, keyVars, codecVars, laterVars>>

\* Connection.WriteMessage: encryptMessage, then the write to the websocket,
\* which may fail.
WriteMessage ==
    /\ t_pc = "completed"
    /\ connection.sequenceNo < MaxSends
    /\ \E message \in Messages, written \in BOOLEAN :
          LET r == encryptMessage(connection, message)
          IN  /\ connection' = r.conn
              /\ sealed' = Append(sealed, [frame |-> r.frame, message |-> message, written |-> written])
              /\ relay' = IF written THEN Append(relay, r.frame) ELSE relay
    /\ UNCHANGED <<t_pc, client, wsOpen, response, respFrom, peerKeys, ctx, t_caller, t_err, t_ops, wsURL, received>>
    /\ UNCHANGED <<bleVars, keyVars, codecVars, laterVars>>

\* The context is cancelled or its deadline passes.
CtxDone ==
    /\ ctx = "live"
    /\ t_pc \in {"sentInitial", "completed"}
    /\ ctx' = "done"
    /\ UNCHANGED <<t_pc, client, wsOpen, relay, response, respFrom, connection, peerKeys, sealed,
                   t_caller, t_err, t_ops, wsURL, received>>
    /\ UNCHANGED <<bleVars, keyVars, codecVars, laterVars>>

\* runHybridTransport from GenerateQRData to the call of WaitForConnection:
\* the scanner has returned a TunnelInfo, NewClient is given the keys of the
\* QR data, SetTunnelInfo the routing ID and connection nonce.
RunHybridTransport ==
    /\ t_pc = "new"
    /\ \E secret \in QRSecrets, tunnelInfo \in TunnelInfos :
          LET qrData == GenerateQRData(DesktopKey, secret, SubSeq(PrivateKeyOf(7), 1, 16))
              r == NewClientResult(tunnelInfo.TunnelURL, qrData.PrivateKey, qrData.PublicKey, qrData.QRSecret)
          IN  /\ t_err' = r.err
              /\ IF r.err # NoError
                 THEN /\ client' = r.client
                      /\ t_pc' = "rejected"
                 ELSE /\ client' = SetTunnelInfoResult(r.client, tunnelInfo.RoutingID, tunnelInfo.ConnectionNonce)
                      /\ t_pc' = "client"
    /\ t_caller' = "runHybridTransport"
    /\ UNCHANGED <<wsOpen, relay, response, respFrom, connection, peerKeys, sealed, ctx, t_ops, wsURL, received>>
    /\ UNCHANGED <<bleVars, keyVars, codecVars, laterVars>>

\* Client.SetTunnelInfo(routingID, connectionNonce)
SetTunnelInfo ==
    /\ t_pc = "client"
    /\ \E routingID \in RoutingIDs, connectionNonce \in ConnectionNonces :
          client' = SetTunnelInfoResult(client, routingID, connectionNonce)
    /\ UNCHANGED <<t_pc, wsOpen, relay, response, respFrom, connection, peerKeys, sealed,
                   ctx, t_caller, t_err, t_ops, wsURL, received>>
    /\ UNCHANGED <<bleVars, keyVars, codecVars, laterVars>>

\* The sessions a handshake with a phone can end in, and for each of them
\* what can arrive and what ReadMessage makes of it, tabulated once.
Sessions ==
    {[conn |-> [established |-> TRUE, sequenceNo |-> 0,
                encryptKey |-> deriveSessionKeys(deriveHandshakeKey(s), DesktopKey, pk).encryptKey,
                decryptKey |-> deriveSessionKeys(deriveHandshakeKey(s), DesktopKey, pk).decryptKey],
      peer |-> deriveSessionKeys(deriveHandshakeKey(s), pk, DesktopKey)] :
        s \in QRSecrets, pk \in PhoneKeys}
IncomingTable == [sess \in Sessions |-> Incoming(sess.conn, sess.peer)]
ReadTable == [sess \in Sessions |-> [incoming \in IncomingTable[sess] |-> ReadMessage(sess.conn, incoming)]]

SessionOf(conn, peer) == [conn |-> [conn EXCEPT !.sequenceNo = 0], peer |-> peer]
IncomingOf(conn, peer) ==
    IF SessionOf(conn, peer) \in Sessions THEN IncomingTable[SessionOf(conn, peer)] ELSE Incoming(conn, peer)
ReadOutcome(conn, peer, incoming) ==
    IF SessionOf(conn, peer) \in Sessions
    THEN ReadTable[SessionOf(conn, peer)][incoming]
    ELSE ReadMessage(conn, incoming)

\* The last two outcomes of the message loop.
LastTwo(s) == IF Len(s) > 2 THEN SubSeq(s, Len(s) - 1, Len(s)) ELSE s

\* The loop refuses a frame whose counter is not above that of every frame
\* it has accepted.
LoopReadMessage_InOrderOnly ==
    /\ t_pc = "completed"
    /\ ctx = "live"
    /\ \E incoming \in IncomingOf(connection, peerKeys) :
          LET stale == /\ incoming.kind = "peer"
                       /\ \E i \in 1..Len(received) :
                             /\ received[i].kind = "peer" /\ received[i].err = NoError
                             /\ received[i].counter >= incoming.counter
              r == IF stale
                   THEN [err |-> <<"stale frame">>, plaintext |-> NoData, opened |-> TRUE]
                   ELSE ReadOutcome(connection, peerKeys, incoming)
              reply == ctap2Response(r.plaintext)
              answers == r.err = NoError /\ reply.respond
          IN  /\ answers => connection.sequenceNo < MaxReplies
              /\ received' = LastTwo(Append(received,
                                 [kind |-> incoming.kind, counter |-> incoming.counter,
                                  message |-> incoming.message, frame |-> incoming.frame,
                                  err |-> r.err, plaintext |-> r.plaintext]))
              /\ IF answers
                 THEN \E written \in BOOLEAN :
                         LET w == encryptMessage(connection, reply.response)
                         IN  /\ connection' = w.conn
                             /\ sealed' = Append(sealed, [frame |-> w.frame, message |-> reply.response,
                                                          written |-> written])
                             /\ relay' = IF written THEN Append(relay, w.frame) ELSE relay
                 ELSE UNCHANGED <<connection, sealed, relay>>
    /\ UNCHANGED <<t_pc, client, wsOpen, response, respFrom, peerKeys, ctx, t_caller, t_err, t_ops, wsURL>>
    /\ UNCHANGED <<bleVars, keyVars, codecVars, laterVars>>

\* One turn of the message loop of runHybridTransport while the context is
\* live: conn.ReadMessage(); on an error the loop continues; otherwise
\* processCTAP2Message, which answers a non-empty message through
\* conn.WriteMessage.
LoopReadMessage ==
    /\ t_pc = "completed"
    /\ ctx = "live"
    /\ \E incoming \in IncomingOf(connection, peerKeys) :
          LET r == ReadOutcome(connection, peerKeys, incoming)
              reply == ctap2Response(r.plaintext)
              answers == r.err = NoError /\ reply.respond
          IN  /\ answers => connection.sequenceNo < MaxReplies
              /\ received' = LastTwo(Append(received,
                                 [kind |-> incoming.kind, counter |-> incoming.counter,
                                  message |-> incoming.message, frame |-> incoming.frame,
                                  err |-> r.err, plaintext |-> r.plaintext]))
              /\ IF answers
                 THEN \E written \in BOOLEAN :
                         LET w == encryptMessage(connection, reply.response)
                         IN  /\ connection' = w.conn
                             /\ sealed' = Append(sealed, [frame |-> w.frame, message |-> reply.response,
                                                          written |-> written])
                             /\ relay' = IF written THEN Append(relay, w.frame) ELSE relay
                 ELSE UNCHANGED <<connection, sealed, relay>>
    /\ UNCHANGED <<t_pc, client, wsOpen, response, respFrom, peerKeys, ctx, t_caller, t_err, t_ops, wsURL>>
    /\ UNCHANGED <<bleVars, keyVars, codecVars, laterVars>>

\* The message loop finds the context done: runHybridTransport returns
\* ctx.Err() and the deferred conn.Close() runs.
LoopCtxDone ==
    /\ t_pc = "completed"
    /\ ctx = "done"
    /\ t_pc' = "stopped"
    /\ wsOpen' = FALSE
    /\ t_err' = <<"context done">>
    /\ UNCHANGED <<client, relay, response, respFrom, connection, peerKeys, sealed,
                   ctx, t_caller, t_ops, wsURL, received>>
    /\ UNCHANGED <<bleVars, keyVars, codecVars, laterVars>>

NextTunnel ==
    \/ NewClient
    \/ RunHybridTransport
    \/ SetTunnelInfo
    \/ Dial
    \/ PerformHandshakeSend
    \/ PerformHandshakeReceivePhone
    \/ PerformHandshakeReceiveRelay
    \/ PerformHandshakeReadError
    \/ WriteMessage

\* The handshake with the phone followed by the message loop.
NextSession ==
    \/ NewClient
    \/ Dial
    \/ PerformHandshakeSend
    \/ PerformHandshakeReceivePhone
    \/ PerformHandshakeReadError
    \/ CtxDone
    \/ LoopReadMessage
    \/ LoopCtxDone

\* The connection attempt alone, under a context that may end.
NextHandshake ==
    \/ NewClient
    \/ Dial
    \/ PerformHandshakeSend
    \/ PerformHandshakeReceivePhone
    \/ PerformHandshakeReceiveRelay
    \/ PerformHandshakeReadError
    \/ CtxDone

(***************************************************************************)
(* The key schedule: every function that derives a key with HKDF, called   *)
(* in any order on any decryptor instance.                                 *)
(***************************************************************************)
\* purpose32 of derive: the purpose as 4 little-endian bytes, of which only
\* the first is ever written.
purpose32(purpose) == <<purpose % 256, 0, 0, 0>>

\* The receiver's own secret is used instead of the argument.
deriveOn_ReceiverSecret(d, output, secret, salt, purpose) ==
    LET r == derive(Len(output), d.qrSecret, salt, purpose)
    IN  [err |-> r.err, output |-> IF r.err = NoError THEN r.output ELSE output]

\* d.derive(output, secret, salt, purpose): the method never reads its
\* receiver; on success every byte of output is overwritten, on an
\* unsupported purpose output is left as it was.
deriveOn(d, output, secret, salt, purpose) ==
    LET r == derive(Len(output), secret, salt, purpose)
    IN  [err |-> r.err, output |-> IF r.err = NoError THEN r.output ELSE output]

\* NewCableV2Decryptor(qrSecret)
NewCableV2Decryptor(secret) == [qrSecret |-> secret]

Decryptors == {NewCableV2Decryptor(s) : s \in QRSecrets}
DeriveLengths == {16, CableV2EIDKeyLength}
Purposes == {keyPurposeEIDKey, keyPurposeTunnelID, keyPurposePSK, 256}
\* Every length with every purpose under the nil salt the repository passes,
\* and one call with a salt.
DeriveArguments ==
    {[n |-> n, salt |-> <<>>, purpose |-> purpose] : n \in DeriveLengths, purpose \in Purposes}
        \cup {[n |-> CableV2EIDKeyLength, salt |-> <<7, 7>>, purpose |-> keyPurposeEIDKey]}
\* The caller's buffer before the call.
Filler(n) == [i \in 1..n |-> 170]

RoleOfPurpose(purpose) ==
    CASE purpose = keyPurposeEIDKey -> "EIDKey"
      [] purpose = keyPurposeTunnelID -> "TunnelID"
      [] purpose = keyPurposePSK -> "PSK"
      [] OTHER -> "none"

\* One call of derive on decryptor d, as a record of what went in and out.
DeriveEntry(d, n, secret, salt, purpose) ==
    LET r == deriveOn(d, Filler(n), secret, salt, purpose)
    IN  [fn |-> "derive", role |-> IF r.err = NoError THEN RoleOfPurpose(purpose) ELSE "none",
         decryptor |-> d, n |-> n, key |-> secret, salt |-> salt, purpose |-> purpose,
         info |-> purpose32(purpose), err |-> r.err, output |-> r.output]

DeriveEntries ==
    [d \in Decryptors |->
        {DeriveEntry(d, a.n, secret, a.salt, a.purpose) : secret \in QRSecrets, a \in DeriveArguments}]

\* tunnel.deriveTunnelID(qrSecret), Client.deriveHandshakeKey() and
\* Client.deriveSessionKeys(phonePublicKey) of a client made for the desktop.
TunnelIDEntries ==
    {[fn |-> "deriveTunnelID", role |-> "TunnelID", decryptor |-> <<>>, n |-> 16, key |-> s, salt |-> <<>>,
      purpose |-> keyPurposeTunnelID, info |-> <<2, 0, 0, 0>>, err |-> NoError,
      output |-> deriveTunnelID(s)] : s \in QRSecrets}

HandshakeKeyEntries ==
    {[fn |-> "deriveHandshakeKey", role |-> "HandshakeKey", decryptor |-> <<>>, n |-> 32, key |-> s, salt |-> <<>>,
      purpose |-> 0, info |-> LabelHandshake, err |-> NoError,
      output |-> deriveHandshakeKey(s)] : s \in QRSecrets}

SessionKeysEntries ==
    {LET handshakeKey == deriveHandshakeKey(s)
         keys == deriveSessionKeys(handshakeKey, DesktopKey, pk)
     IN  [fn |-> "deriveSessionKeys", role |-> "SessionKeys", decryptor |-> <<>>, n |-> 64, key |-> handshakeKey,
          salt |-> <<>>, purpose |-> 0, info |-> LabelSession \o DesktopKey \o pk, err |-> NoError,
          output |-> keys.encryptKey \o keys.decryptKey] : s \in QRSecrets, pk \in PhoneKeys}

InitKeys ==
    /\ k_decryptor = NewCableV2Decryptor(SecretOf(1))
    /\ k_calls = <<>>

\* Another decryptor instance is made and used from now on.
KNewDecryptor ==
    /\ \E s \in QRSecrets :
         /\ NewCableV2Decryptor(s) # k_decryptor
         /\ k_decryptor' = NewCableV2Decryptor(s)
    /\ UNCHANGED <<k_calls, bleVars, tunnelVars, codecVars, laterVars>>

Called(e) ==
    /\ k_calls' = LastTwo(Append(k_calls, e))
    /\ UNCHANGED <<k_decryptor, bleVars, tunnelVars, codecVars, laterVars>>

KDerive == \E e \in DeriveEntries[k_decryptor] : Called(e)

KDeriveTunnelID == \E e \in TunnelIDEntries : Called(e)

KDeriveHandshakeKey == \E e \in HandshakeKeyEntries : Called(e)

KDeriveSessionKeys == \E e \in SessionKeysEntries : Called(e)

NextKeys ==
    \/ KNewDecryptor
    \/ KDerive
    \/ KDeriveTunnelID
    \/ KDeriveHandshakeKey
    \/ KDeriveSessionKeys

(***************************************************************************)
(* Package qrcode: the digit encoding of the QR contents and its inverse.  *)
(* A string is the sequence of its bytes (ASCII codes); a uint64 is its 8  *)
(* little-endian bytes, an int64 its 8 big-endian two's complement bytes,  *)
(* so that no value is cut to the width of the model's integers.           *)
(***************************************************************************)
chunkSize == 7
chunkDigits == 17
partialChunkDigits == 265979184    \* 0x0fda8530

Reverse(s) == [i \in 1..Len(s) |-> s[Len(s) + 1 - i]]
AllZero(s) == \A i \in 1..Len(s) : s[i] = 0

\* Long division of the number with big-endian digits ds in base b by d:
\* the remainder after the first k digits, and the quotient.
RECURSIVE LongRem(_, _, _, _)
LongRem(ds, b, d, k) == IF k = 0 THEN 0 ELSE (LongRem(ds, b, d, k - 1) * b + ds[k]) % d

LongQuot(ds, b, d) == [k \in 1..Len(ds) |-> (LongRem(ds, b, d, k - 1) * b + ds[k]) \div d]

\* strconv.FormatUint(v, 10): the decimal digits of v, most significant
\* first, no leading zero, "0" for zero.  be is v in big-endian bytes.
RECURSIVE FormatDigits(_)
FormatDigits(be) ==
    IF AllZero(be) THEN <<>>
    ELSE FormatDigits(LongQuot(be, 256, 10)) \o <<48 + LongRem(be, 256, 10, Len(be))>>

FormatUint(v) == IF AllZero(v) THEN <<48>> ELSE FormatDigits(Reverse(v))

\* zeros[:k]
ZeroDigits(k) == [i \in 1..k |-> 48]

\* One chunk of digitEncode: the chunk is copied into 8 zero bytes, read as
\* a little-endian uint64, formatted, and padded on the left to the width.
\* zeros[:width-len(v)] panics when the value is wider than the width.
encodeChunk(d, width) ==
    LET chunk == d \o Zeros(8 - Len(d))
        v == FormatUint(chunk)
    IN  IF width - Len(v) < 0 THEN [panic |-> TRUE, ret |-> <<>>]
        ELSE [panic |-> FALSE, ret |-> ZeroDigits(width - Len(v)) \o v]

\* digits := 15 & (partialChunkDigits >> (4 * len(d)))
partialDigits_TwoForOneByte(n) == IF n = 1 THEN 2 ELSE (partialChunkDigits \div (16 ^ n)) % 16

partialDigits(n) == (partialChunkDigits \div (16 ^ n)) % 16

\* digitEncode
RECURSIVE digitEncode(_)
digitEncode(d) ==
    IF Len(d) >= chunkSize
    THEN LET head == encodeChunk(SubSeq(d, 1, chunkSize), chunkDigits)
             rest == digitEncode(SubSeq(d, chunkSize + 1, Len(d)))
         IN  IF head.panic \/ rest.panic THEN [panic |-> TRUE, ret |-> <<>>]
             ELSE [panic |-> FALSE, ret |-> head.ret \o rest.ret]
    ELSE IF Len(d) # 0
    THEN encodeChunk(d, partialDigits(Len(d)))
    ELSE [panic |-> FALSE, ret |-> <<>>]

\* strconv.ParseUint(s, 10, 64) of at most 17 characters (no overflow of 64
\* bits is possible): a syntax error unless every character is a digit;
\* binary.LittleEndian.PutUint64 of the value: its 8 little-endian bytes.
RECURSIVE BytesLE(_, _)
BytesLE(ds, k) ==
    IF k = 0 THEN <<>>
    ELSE <<LongRem(ds, 10, 256, Len(ds))>> \o BytesLE(LongQuot(ds, 10, 256), k - 1)

ParseUint(s) ==
    IF s = <<>> \/ \E i \in 1..Len(s) : s[i] \notin 48..57
    THEN [err |-> <<"invalid syntax">>, val |-> Zeros(8)]
    ELSE [err |-> NoError, val |-> BytesLE([i \in 1..Len(s) |-> s[i] - 48], 8)]

\* Five remaining digits are taken for one byte.
expectedLen_FiveDigitsOneByte(digits) ==
    CASE digits = 15 -> 6 [] digits = 13 -> 5 [] digits = 10 -> 4
      [] digits = 8 -> 3 [] digits = 5 -> 1 [] digits = 3 -> 1 [] digits = 0 -> 0
      [] OTHER -> -1

\* The byte count of a partial chunk of the given number of digits, -1 if none.
expectedLen(digits) ==
    CASE digits = 15 -> 6 [] digits = 13 -> 5 [] digits = 10 -> 4
      [] digits = 8 -> 3 [] digits = 5 -> 2 [] digits = 3 -> 1 [] digits = 0 -> 0
      [] OTHER -> -1

\* digitDecode
RECURSIVE digitDecode(_)
digitDecode(digitString) ==
    IF Len(digitString) >= chunkDigits
    THEN LET parsed == ParseUint(SubSeq(digitString, 1, chunkDigits))
             rest == digitDecode(SubSeq(digitString, chunkDigits + 1, Len(digitString)))
         IN  IF parsed.err # NoError THEN [err |-> <<"failed to parse chunk">>, result |-> <<>>]
             ELSE IF rest.err # NoError THEN rest
             ELSE [err |-> NoError, result |-> SubSeq(parsed.val, 1, chunkSize) \o rest.result]
    ELSE IF Len(digitString) > 0
    THEN IF expectedLen(Len(digitString)) = -1
         THEN [err |-> <<"unexpected remaining digits length", Len(digitString)>>, result |-> <<>>]
         ELSE LET parsed == ParseUint(digitString)
              IN  IF parsed.err # NoError THEN [err |-> <<"failed to parse remaining chunk">>, result |-> <<>>]
                  ELSE [err |-> NoError, result |-> SubSeq(parsed.val, 1, expectedLen(Len(digitString)))]
    ELSE [err |-> NoError, result |-> <<>>]

\* An int64 below 2^31 as its 8 big-endian bytes.
I64(n) == Zeros(4) \o [i \in 1..4 |-> (n \div (256 ^ (4 - i))) % 256]

\* The tag byte is 0x18 whatever the width.
cborEncodeInt64_AlwaysOneByteTag(value) ==
    IF value[1] >= 128 THEN <<32>>
    ELSE IF AllZero(SubSeq(value, 1, 7)) /\ value[8] < 24 THEN <<value[8]>>
    ELSE IF AllZero(SubSeq(value, 1, 7)) THEN <<24, value[8]>>
    ELSE IF AllZero(SubSeq(value, 1, 6)) THEN <<24>> \o SubSeq(value, 7, 8)
    ELSE IF AllZero(SubSeq(value, 1, 4)) THEN <<24>> \o SubSeq(value, 5, 8)
    ELSE <<24>> \o value

\* cborEncodeInt64: a placeholder byte for a negative value, otherwise the
\* shortest CBOR unsigned integer.
cborEncodeInt64(value) ==
    IF value[1] >= 128 THEN <<32>>
    ELSE IF AllZero(SubSeq(value, 1, 7)) /\ value[8] < 24 THEN <<value[8]>>
    ELSE IF AllZero(SubSeq(value, 1, 7)) THEN <<24, value[8]>>
    ELSE IF AllZero(SubSeq(value, 1, 6)) THEN <<25>> \o SubSeq(value, 7, 8)
    ELSE IF AllZero(SubSeq(value, 1, 4)) THEN <<26>> \o SubSeq(value, 5, 8)
    ELSE <<27>> \o value

cborMajorByteString == 2
assignedTunnelServerDomains == <<"cable.ua5v.com", "cable.auth.com">>
\* "FIDO:/"
FidoPrefix == <<70, 73, 68, 79, 58, 47>>

\* The CBOR map encodeQRContents builds when the package variable
\* assignedTunnelServerDomains holds the list domains; randByte is the GREASE
\* draw and now is time.Now().Unix().  The count is written as byte(n).
qrContentsOfDomains(domains, compressedPublicKey, qrSecretArray, randByte, now, declared) ==
    <<160 + declared>>
        \o <<0, (cborMajorByteString * 32) + 24, 33>> \o compressedPublicKey
        \o <<1, (cborMajorByteString * 32) + 16>> \o qrSecretArray
        \o <<2, Len(domains) % 256>>
        \o <<3>> \o cborEncodeInt64(now)
        \o <<4, 244>>
        \o <<5, (3 * 32) + 2, 103, 97>>
        \o (IF randByte % 4 = 0 THEN <<25, 255, 255, 0>> ELSE <<>>)

\* The same with the list the package is built with.
qrContentsCBOR(compressedPublicKey, qrSecretArray, randByte, now, declared) ==
    qrContentsOfDomains(assignedTunnelServerDomains, compressedPublicKey, qrSecretArray, randByte, now, declared)

\* The GREASE pair is appended but not counted.
encodeQRContents_CountNotRaised(compressedPublicKey, qrSecretArray, randByte, now) ==
    LET digits == digitEncode(qrContentsCBOR(compressedPublicKey, qrSecretArray, randByte, now, 6))
    IN  [panic |-> digits.panic, qr |-> FidoPrefix \o digits.ret]

\* encodeQRContents
encodeQRContents(compressedPublicKey, qrSecretArray, randByte, now) ==
    LET extraKey == randByte % 4 = 0
        numMapElements == IF extraKey THEN 7 ELSE 6
        digits == digitEncode(qrContentsCBOR(compressedPublicKey, qrSecretArray, randByte, now, numMapElements))
    IN  [panic |-> digits.panic, qr |-> FidoPrefix \o digits.ret]

\* encodeQRContents when assignedTunnelServerDomains holds the list domains:
\* more than 24 entries panic with "larger encoding needed".
encodeQRContentsOfDomains(domains, compressedPublicKey, qrSecretArray, randByte, now) ==
    LET extraKey == randByte % 4 = 0
        numMapElements == IF extraKey THEN 7 ELSE 6
        digits == digitEncode(qrContentsOfDomains(domains, compressedPublicKey, qrSecretArray, randByte, now,
                                                  numMapElements))
    IN  IF Len(domains) > 24 THEN [panic |-> TRUE, qr |-> <<>>]
        ELSE [panic |-> digits.panic, qr |-> FidoPrefix \o digits.ret]

\* strings.TrimPrefix
TrimPrefix(s, prefix) ==
    IF Len(s) >= Len(prefix) /\ SubSeq(s, 1, Len(prefix)) = prefix
    THEN SubSeq(s, Len(prefix) + 1, Len(s)) ELSE s

\* parseCBORMap.  pos counts from 0 as in the code; a read past the end of
\* data is a run-time panic.  Values are tagged with their Go type: an int
\* is kept as its 8 big-endian bytes.
Byte(data, pos) == data[pos + 1]
UintAt(data, pos, width) == Zeros(8 - width) \o SubSeq(data, pos + 1, pos + width)

\* The unsigned argument that follows the initial byte at pos, and the
\* position after it; additional information 28..31 reads nothing and does
\* not move.
cborArgument(data, pos, additionalInfo, widest) ==
    LET width == CASE additionalInfo = 24 -> 1 [] additionalInfo = 25 -> 2
                   [] additionalInfo = 26 -> 4 [] additionalInfo = 27 -> 8 [] OTHER -> 0
    IN  IF additionalInfo < 24 THEN [panic |-> FALSE, n |-> I64(additionalInfo), pos |-> pos + 1]
        ELSE IF width = 0 \/ width > widest THEN [panic |-> FALSE, n |-> I64(0), pos |-> pos]
        ELSE IF pos + 1 + width > Len(data) THEN [panic |-> TRUE, n |-> I64(0), pos |-> pos]
        ELSE [panic |-> FALSE, n |-> UintAt(data, pos + 1, width), pos |-> pos + 1 + width]

\* A length read by the byte string and text string cases: at most 2 bytes wide.
SmallInt(n) == n[7] * 256 + n[8]

Put(result, key, value) ==
    [k \in (DOMAIN result) \cup {key} |-> IF k = key THEN value ELSE result[k]]

ParseFailed(err, pos) == [err |-> err, result |-> <<>>, pos |-> pos]

\* The value at pos, stored under key.
cborValue(data, pos, key, result) ==
    LET majorType == Byte(data, pos) \div 32
        additionalInfo == Byte(data, pos) % 32
    IN  CASE majorType \in {0, 1} ->
               LET a == cborArgument(data, pos, additionalInfo, 8)
               IN  IF a.panic THEN ParseFailed(<<"panic">>, pos)
                   ELSE IF majorType = 0
                   THEN [err |-> NoError, pos |-> a.pos,
                         result |-> IF additionalInfo <= 27 THEN Put(result, key, <<"int", a.n>>) ELSE result]
                   ELSE [err |-> NoError, pos |-> a.pos,
                         result |-> Put(result, key, <<"int", [i \in 1..8 |-> 255 - a.n[i]]>>)]
          [] majorType \in {2, 3} ->
               LET a == cborArgument(data, pos, additionalInfo, 2)
                   length == SmallInt(a.n)
               IN  IF a.panic THEN ParseFailed(<<"panic">>, pos)
                   ELSE IF a.pos + length > Len(data)
                   THEN ParseFailed(<<"length extends beyond data">>, a.pos)
                   ELSE [err |-> NoError, pos |-> a.pos + length,
                         result |-> Put(result, key,
                             <<IF majorType = 2 THEN "bytes" ELSE "string", SubSeq(data, a.pos + 1, a.pos + length)>>)]
          [] majorType = 7 ->
               IF additionalInfo = 21 THEN [err |-> NoError, pos |-> pos + 1, result |-> Put(result, key, <<"bool", TRUE>>)]
               ELSE IF additionalInfo = 20 THEN [err |-> NoError, pos |-> pos + 1, result |-> Put(result, key, <<"bool", FALSE>>)]
               ELSE IF additionalInfo = 31
               THEN [err |-> NoError, result |-> Put(result, key, <<"nil">>),
                     pos |-> IF pos + 2 < Len(data) /\ Byte(data, pos + 1) = 255 /\ Byte(data, pos + 2) = 0
                             THEN pos + 3 ELSE pos + 1]
               ELSE ParseFailed(<<"unsupported simple value", additionalInfo>>, pos)
          [] OTHER -> ParseFailed(<<"unsupported CBOR major type", majorType>>, pos)

\* The loop over the declared number of pairs.
RECURSIVE cborPairs(_, _, _, _)
cborPairs(data, pos, remaining, result) ==
    IF remaining = 0 THEN [err |-> NoError, result |-> result, pos |-> pos]
    ELSE IF pos >= Len(data) THEN ParseFailed(<<"unexpected end of data at position", pos>>, pos)
    ELSE IF Byte(data, pos) = 25 /\ pos + 3 > Len(data) THEN ParseFailed(<<"panic">>, pos)
    ELSE LET wide == Byte(data, pos) = 25
             key == IF wide THEN Byte(data, pos + 1) * 256 + Byte(data, pos + 2) ELSE Byte(data, pos)
             valuePos == IF wide THEN pos + 3 ELSE pos + 1
         IN  IF valuePos >= Len(data)
             THEN ParseFailed(<<"unexpected end of data at value position", valuePos>>, valuePos)
             ELSE LET v == cborValue(data, valuePos, key, result)
                  IN  IF v.err # NoError THEN v
                      ELSE cborPairs(data, v.pos, remaining - 1, v.result)

\* parseCBORMap: the map, and (for the model only) where the parser stopped.
parseCBORMap(data) ==
    IF Len(data) = 0 THEN ParseFailed(<<"empty CBOR data">>, 0)
    ELSE IF data[1] < 160 \/ data[1] > 183 THEN ParseFailed(<<"not a CBOR map", data[1]>>, 0)
    ELSE cborPairs(data, 1, data[1] - 160, <<>>)

\* The digits of the QR code a browser generated (TestDecodeBrowserQRCode).
BrowserDigits ==
    <<49, 54, 52, 50, 53, 54, 49, 55, 54, 53, 49, 54, 54, 51, 48, 49, 52, 49, 50, 57, 55, 56, 53, 51, 49, 50, 50, 54, 50, 54, 50, 49, 57, 57,
      52, 53, 55, 52, 56, 51, 53, 57, 51, 56, 48, 54, 53, 50, 49, 48, 50, 48, 53, 57, 56, 57, 53, 53, 49, 51, 49, 56, 55, 48, 52, 55, 54, 55,
      54, 51, 51, 52, 55, 50, 57, 49, 53, 56, 57, 48, 54, 53, 57, 55, 55, 54, 55, 53, 54, 51, 51, 57, 55, 52, 51, 54, 50, 53, 53, 53, 48, 49,
      52, 54, 54, 55, 54, 50, 49, 51, 53, 56, 53, 53, 53, 49, 54, 55, 51, 48, 48, 55, 53, 51, 51, 54, 55, 54, 54, 53, 50, 48, 51, 50, 51, 48,
      55, 49, 55, 55, 55, 55, 52, 52, 51, 48, 53, 51, 57, 48, 51, 51, 56, 49, 48, 55, 48, 57, 54, 54, 53, 52, 48, 56, 51, 48, 55, 54>>

(***************************************************************************)
(* The calls of package qrcode and of the advert parser, each on inputs    *)
(* drawn from small sets; a result may be handed on to the next function.  *)
(***************************************************************************)
MaxBufLen == 20

\* Buffers of every length up to MaxBufLen: all zero, all 255, and mixed;
\* and single bytes around the widths of their decimals.
Buffers ==
    UNION {{Zeros(n), [i \in 1..n |-> 255], [i \in 1..n |-> (37 * i + 11 * n) % 256]} : n \in 0..MaxBufLen}
        \cup {<<b>> : b \in {9, 10, 99, 100}}

\* The lists assignedTunnelServerDomains may hold, by length.
MaxDomains == 25

DomainLists == {[i \in 1..n |-> "cable.ua5v.com"] : n \in 0..MaxDomains}

\* Digit strings no digitEncode call returns: a length that is no chunk
\* width, and a character that is no digit.
BadDigitStrings == {<<49>>, <<49, 50, 51, 52>>, <<49, 50, 120>>, ZeroDigits(16), ZeroDigits(16) \o <<45>>}

\* int64 values on both sides of every width cborEncodeInt64 tells apart,
\* the largest one, and -1.
Int64s ==
    {I64(n) : n \in {0, 23, 24, 255, 256, 65535, 65536, 1700000000}}
        \cup {<<0, 0, 0, 0, 255, 255, 255, 255>>, <<0, 0, 0, 1, 0, 0, 0, 0>>,
              <<127, 255, 255, 255, 255, 255, 255, 255>>, [i \in 1..8 |-> 255]}

\* time.Now().Unix() of a clock set after 1970: today, and past 2^32 seconds.
Clock == {I64(1700000000), <<0, 0, 0, 1, 0, 0, 0, 5>>}
RandBytes == {0, 1, 4, 255}
CompressedKeys == {DesktopKey, PublicKeyOf(2)}

\* Bytes that are no map, a map cut short, and a map whose value has an
\* unsupported type.
BadCBOR == {<<>>, <<130>>, <<161, 0>>, <<161, 25, 255>>, <<161, 0, 24>>, <<161, 0, 88, 33, 1>>,
            <<161, 0, 128>>, <<161, 0, 246>>, <<162, 0, 5, 1, 32>>, <<161, 9, 255, 255, 0>>}

\* Decrypted advertisements: those of the decryptor's tests, the plaintext of
\* TestUnpackDecryptedAdvert, and domain bytes that differ from each other.
AdvertPlaintexts ==
    Plaintexts \cup {<<0, 184, 156, 4, 199, 220, 147, 197, 122, 28, 235, 128, 27, 224, 0, 0>>,
                     Zeros(14) \o <<1, 2>>, <<7>> \o Zeros(13) \o <<0, 1>>, [i \in 1..16 |-> 255]}

\* P-256 identity keys: X of 32 bytes, and X with a leading zero byte, which
\* X.Bytes() drops.
IdentityKeys ==
    {[X |-> SubSeq(DesktopKey, 2, 33), odd |-> TRUE], [X |-> SubSeq(PublicKeyOf(2), 3, 33), odd |-> FALSE]}
RandomTunnelIDs == {Filler(16), [i \in 1..16 |-> (29 * i) % 256]}

\* QRData of every combination of field lengths around the ones checked.
QRDatas ==
    {[PublicKey |-> Filler(pub), QRSecret |-> Filler(sec), TunnelID |-> Filler(tid), PrivateKey |-> Filler(priv),
      TunnelURL |-> [scheme |-> "", host |-> host]] :
        pub \in {0, 32, 33, 34}, sec \in {0, 16, 17, 32}, tid \in {0, 16}, priv \in {0, 32},
        host \in {"", "cable.ua5v.com"}}

\* q_orig: the function and the argument a chain of calls began with.
NoCall == [fn |-> "none", arg |-> <<>>]
First(fn, arg) == [fn |-> fn, arg |-> arg]

InitCodec ==
    /\ q_fn = "none"
    /\ q_arg = <<>>
    /\ q_res = <<>>
    /\ q_orig = NoCall

Applied(fn, arg, res, orig) ==
    /\ q_fn' = fn
    /\ q_arg' = arg
    /\ q_res' = res
    /\ q_orig' = orig
    /\ UNCHANGED <<bleVars, tunnelVars, keyVars, laterVars>>

\* digitEncode(d)
DigitEncodeCall ==
    /\ q_fn = "none"
    /\ \E d \in Buffers : Applied("digitEncode", d, digitEncode(d), First("digitEncode", d))

\* digitDecode of the string digitEncode returned
DigitDecodeEncoded ==
    /\ q_fn = "digitEncode"
    /\ ~q_res.panic
    /\ Applied("digitDecode", q_res.ret, digitDecode(q_res.ret), q_orig)

\* digitDecode of any other string
DigitDecodeCall ==
    /\ q_fn = "none"
    /\ \E digitString \in BadDigitStrings : Applied("digitDecode", digitString, digitDecode(digitString), First("digitDecode", digitString))

\* UnpackDecryptedAdvert(plaintext)
UnpackDecryptedAdvertCall ==
    /\ q_fn = "none"
    /\ \E p \in AdvertPlaintexts :
         Applied("UnpackDecryptedAdvert", p, UnpackDecryptedAdvert(p), First("UnpackDecryptedAdvert", p))

\* ParseDecryptedServiceData(decryptedData)
ParseDecryptedServiceDataCall ==
    /\ q_fn = "none"
    /\ \E p \in AdvertPlaintexts \cup {Zeros(15), Zeros(17)} :
         Applied("ParseDecryptedServiceData", p, ParseDecryptedServiceData(p), First("ParseDecryptedServiceData", p))

\* tryDecryptCableData, from the decrypted data on: the TunnelInfo it sends.
TunnelInfoCall ==
    /\ q_fn = "none"
    /\ \E p \in AdvertPlaintexts :
         Applied("tryDecryptCableData", p, TunnelInfoOf(p), First("tryDecryptCableData", p))

\* GenerateQRData(), with the values it draws: identity key, QR secret and
\* tunnel ID.
GenerateQRDataCall ==
    /\ q_fn = "none"
    /\ \E identityKey \in IdentityKeys, secret \in QRSecrets, tunnelID \in RandomTunnelIDs :
         LET arg == [identityKey |-> identityKey, qrSecret |-> secret, tunnelID |-> tunnelID]
         IN  Applied("GenerateQRData", arg, GenerateQRData(compressECKey(identityKey), secret, tunnelID),
                     First("GenerateQRData", arg))

\* ValidateQRDataCBOR(qrData) and ValidateQRData(qrData), of any QRData or of
\* the one GenerateQRData has just returned.
ValidateQRDataCBORCall ==
    /\ q_fn \in {"none", "GenerateQRData"}
    /\ \E qrData \in (IF q_fn = "none" THEN QRDatas ELSE {q_res}) :
         Applied("ValidateQRDataCBOR", qrData, ValidateQRDataCBOR(qrData),
                 IF q_fn = "none" THEN First("ValidateQRDataCBOR", qrData) ELSE q_orig)

ValidateQRDataCall ==
    /\ q_fn \in {"none", "GenerateQRData"}
    /\ \E qrData \in (IF q_fn = "none" THEN QRDatas ELSE {q_res}) :
         Applied("ValidateQRData", qrData, ValidateQRData(qrData),
                 IF q_fn = "none" THEN First("ValidateQRData", qrData) ELSE q_orig)

\* cborEncodeInt64(value)
CborEncodeInt64Call ==
    /\ q_fn = "none"
    /\ \E value \in Int64s :
         Applied("cborEncodeInt64", value, cborEncodeInt64(value), First("cborEncodeInt64", value))

\* encodeQRContents(&compressedPublicKey, &qrSecret), with the two values it
\* draws itself: the GREASE byte and the clock.
EncodeQRContentsCall ==
    /\ q_fn = "none"
    /\ \E compressedPublicKey \in CompressedKeys, secret \in QRSecrets, randByte \in RandBytes, now \in Clock :
         LET arg == [compressedPublicKey |-> compressedPublicKey, qrSecret |-> secret,
                     randByte |-> randByte, now |-> now]
         IN  Applied("encodeQRContents", arg, encodeQRContents(compressedPublicKey, secret, randByte, now),
                     First("encodeQRContents", arg))

\* encodeQRContents with a list of assigned tunnel server domains of any
\* length up to MaxDomains.
EncodeQRContentsOfDomainsCall ==
    /\ q_fn = "none"
    /\ \E domains \in DomainLists, randByte \in {0, 1} :
         LET arg == [domains |-> domains, compressedPublicKey |-> DesktopKey, qrSecret |-> SecretOf(1),
                     randByte |-> randByte, now |-> I64(1700000000)]
         IN  Applied("encodeQRContentsOfDomains", arg,
                     encodeQRContentsOfDomains(domains, arg.compressedPublicKey, arg.qrSecret, randByte, arg.now),
                     First("encodeQRContentsOfDomains", arg))

\* digitDecode(strings.TrimPrefix(url, "FIDO:/")) of the string
\* encodeQRContents returned
DigitDecodeQR ==
    /\ q_fn \in {"encodeQRContents", "encodeQRContentsOfDomains"}
    /\ ~q_res.panic
    /\ LET digitString == TrimPrefix(q_res.qr, FidoPrefix)
       IN  Applied("digitDecode", digitString, digitDecode(digitString), q_orig)

\* digitDecode of the browser's QR code
DigitDecodeBrowserQR ==
    /\ q_fn = "none"
    /\ LET digitString == TrimPrefix(FidoPrefix \o BrowserDigits, FidoPrefix)
       IN  Applied("digitDecode", digitString, digitDecode(digitString), First("browserQR", digitString))

\* parseCBORMap of the bytes digitDecode returned
ParseCBORMapDecoded ==
    /\ q_fn = "digitDecode"
    /\ q_orig.fn \in {"encodeQRContents", "encodeQRContentsOfDomains", "browserQR"}
    /\ q_res.err = NoError
    /\ Applied("parseCBORMap", q_res.result, parseCBORMap(q_res.result), q_orig)

\* parseCBORMap of any other bytes
ParseCBORMapCall ==
    /\ q_fn = "none"
    /\ \E data \in BadCBOR : Applied("parseCBORMap", data, parseCBORMap(data), First("parseCBORMap", data))

\* The caller is done with the result.
CodecReturn ==
    /\ q_fn # "none"
    /\ Applied("none", <<>>, <<>>, NoCall)

NextCodec ==
    \/ DigitEncodeCall
    \/ DigitDecodeEncoded
    \/ DigitDecodeCall
    \/ UnpackDecryptedAdvertCall
    \/ ParseDecryptedServiceDataCall
    \/ TunnelInfoCall
    \/ GenerateQRDataCall
    \/ ValidateQRDataCBORCall
    \/ ValidateQRDataCall
    \/ CborEncodeInt64Call
    \/ EncodeQRContentsCall
    \/ EncodeQRContentsOfDomainsCall
    \/ DigitDecodeQR
    \/ DigitDecodeBrowserQR
    \/ ParseCBORMapDecoded
    \/ ParseCBORMapCall
    \/ CodecReturn

(***************************************************************************)
(* The BLE scanner: the extraction paths of an advertisement.              *)
(***************************************************************************)
MaxAdverts == 2

\* The QR secret NewScanner was given.
ScannerSecret == SecretOf(1)

NoTunnelInfo == [nil |-> TRUE]

\* decryptor.DecryptServiceData(data), as one call.
DecryptServiceData(secret, data) ==
    IF invalidLength(data)
    THEN [data |-> NoData, err |-> <<"invalid encrypted data length", CableV2AdvertLength, Len(data)>>]
    ELSE LET r == derive(CableV2EIDKeyLength, secret, <<>>, keyPurposeEIDKey)
         IN  IF r.err # NoError
             THEN [data |-> NoData, err |-> <<"failed to derive EID key">> \o r.err]
             ELSE LET t == IF tagMatches(r.output, data)
                           THEN trialResult(decryptBlock(r.output, data))
                           ELSE [plaintext |-> Zeros(CableV2PlaintextLength), ok |-> FALSE]
                      ret == decryptResult(t.plaintext, t.ok)
                  IN  [data |-> ret.data, err |-> ret.err]

\* The service data the adapter may deliver: what a phone broadcasts for two
\* plaintexts when it holds the scanner's QR secret, for one plaintext when
\* it holds another secret, and for a plaintext with a reserved bit set; and
\* the first of them with one bit changed, one byte short and one byte long.
Damaged(a, how) ==
    CASE how = "flipped" -> FlipBit(a, 3, 0)
      [] how = "short" -> Slice(a, 0, 19)
      [] how = "long" -> a \o <<0>>
      [] OTHER -> a

AdvertData ==
    {Damaged(BuildAdvert(EIDKeyOf(x[1]), x[2]), x[3]) :
        x \in {<<ScannerSecret, PlainOf(0, 1), "whole">>, <<ScannerSecret, PlainOf(0, 2), "whole">>,
               <<SecretOf(2), PlainOf(0, 1), "whole">>, <<ScannerSecret, PlainOf(1, 1), "whole">>,
               <<ScannerSecret, PlainOf(0, 1), "flipped">>, <<ScannerSecret, PlainOf(0, 1), "short">>,
               <<ScannerSecret, PlainOf(0, 1), "long">>}}

\* Apple manufacturer data handed to tryAppleManufacturerDataDecryption: two
\* type bytes followed by what may be service data, by the first 16 bytes
\* of it, by 7 of its bytes, and by 2 of its bytes.
AppleData == UNION {{<<16, 5>> \o a, <<16, 5>> \o Slice(a, 0, 16), <<16, 5>> \o Slice(a, 0, 7),
                     <<16, 5>> \o Slice(a, 0, 2)} : a \in AdvertData}

\* The bytes a path hands to tryDecryptCableData.
Candidate(data, source) == [data |-> data, source |-> source]

\* Scanner.tryAppleManufacturerDataDecryption: what it hands on.
AppleCandidates(manufacturerData) ==
    LET cableCandidate == Slice(manufacturerData, 2, Len(manufacturerData))
    IN  IF Len(manufacturerData) < 9 THEN <<>>
        ELSE IF Len(cableCandidate) >= 20
        THEN <<Candidate(cableCandidate, "Apple Manufacturer Data")>>
        ELSE IF Len(cableCandidate) >= 7
        THEN <<Candidate(cableCandidate \o Zeros(20 - Len(cableCandidate)), "iPad Apple Data (padded)")>>
        ELSE <<>>

\* Every byte string the scanner hands to DecryptServiceData, and what
\* DecryptServiceData answers under the scanner's secret (computed once).
ScannedData ==
    AdvertData \cup UNION {{c.data : c \in Range(AppleCandidates(m))} : m \in AppleData}

DecryptServiceDataTable ==
    [secret \in {ScannerSecret} |-> [data \in ScannedData |-> DecryptServiceData(secret, data)]]

\* What a call of processTunnelAdvertisement or of one of its helpers
\* returns: the bool, the channel afterwards, and (for the model only) what
\* it placed on the channel with the bytes and the path it came from.
NotSent(chan, outcome) == [ok |-> FALSE, chan |-> chan, placed |-> <<>>, outcome |-> outcome]

Placed(info, data, source) == [info |-> info, data |-> data, source |-> source]

\* A send that takes the place of what the channel holds when it is full.
trySend_ReplaceWhenFull(chan, info, data, source) ==
    [ok |-> TRUE, chan |-> IF Len(chan) < 1 THEN Append(chan, info) ELSE <<info>>,
     placed |-> <<Placed(info, data, source)>>, outcome |-> "sent"]

\* select { case tunnelInfoChan <- tunnelInfo: return true; default: return false }
trySend(chan, info, data, source) ==
    IF Len(chan) < 1
    THEN [ok |-> TRUE, chan |-> Append(chan, info), placed |-> <<Placed(info, data, source)>>, outcome |-> "sent"]
    ELSE NotSent(chan, "dropped")

\* A failed decryption is answered with the fields of the raw bytes.
tryDecryptCableData_RawOnFailure(secret, data, chan, source) ==
    LET d == DecryptServiceDataTable[secret][data]
    IN  IF d.err # NoError
        THEN trySend(chan, TunnelInfoOf(Slice(data \o Zeros(CableV2PlaintextLength), 0, CableV2PlaintextLength)),
                     data, source)
        ELSE trySend(chan, TunnelInfoOf(d.data), data, source)

\* Scanner.tryDecryptCableData
tryDecryptCableData(secret, data, chan, source) ==
    LET d == DecryptServiceDataTable[secret][data]
    IN  IF d.err # NoError THEN NotSent(chan, "decryptFailed")
        ELSE IF ParseDecryptedServiceData(d.data).err # NoError THEN NotSent(chan, "parseFailed")
        ELSE trySend(chan, TunnelInfoOf(d.data), data, source)

\* The candidates are tried in order until one has been sent; outcome is
\* what is reported when there is none.
RECURSIVE TryEach(_, _, _, _)
TryEach(secret, candidates, chan, outcome) ==
    IF candidates = <<>> THEN NotSent(chan, outcome)
    ELSE LET r == tryDecryptCableData(secret, Head(candidates).data, chan, Head(candidates).source)
         IN  IF r.ok \/ Len(candidates) = 1 THEN r
             ELSE TryEach(secret, Tail(candidates), chan, outcome)

\* Scanner.tryAppleManufacturerDataDecryption
tryAppleManufacturerDataDecryption(secret, manufacturerData, chan) ==
    TryEach(secret, AppleCandidates(manufacturerData), chan,
            IF Len(manufacturerData) < 9 THEN "tooShort" ELSE "insufficient")

\* Scanner.extractAppleManufacturerData: a placeholder that returns []byte{}.
extractAppleManufacturerData(result) == <<>>

\* The data of the first service data entry whose UUID is the caBLE or the
\* FIDO one; nil when there is none.
ServiceDataOf(entries) ==
    LET matching == {i \in 1..Len(entries) : entries[i].uuid \in {"fff9", "fffd"}}
    IN  IF matching = {} THEN <<>>
        ELSE entries[CHOOSE i \in matching : \A j \in matching : i <= j].data

\* Scanner.processTunnelAdvertisement: the Apple manufacturer data of an
\* iPad first; when that sent nothing, the service data of a FIDO or caBLE
\* device or of an iPad, if it has at least 20 bytes.
StandardCandidates(result) ==
    LET serviceData == ServiceDataOf(result.serviceData)
    IN  IF ~result.hasFIDOService /\ ~result.hasCableService /\ ~result.isIPad THEN <<>>
        ELSE IF Len(serviceData) < 20 THEN <<>>
        ELSE <<Candidate(serviceData, "Standard Service Data")>>

processTunnelAdvertisement(secret, result, chan) ==
    LET appleManufacturerData == extractAppleManufacturerData(result)
        apple == IF result.isIPad /\ Len(appleManufacturerData) > 0
                 THEN AppleCandidates(appleManufacturerData) ELSE <<>>
    IN  TryEach(secret, apple \o StandardCandidates(result), chan,
                IF ~result.hasFIDOService /\ ~result.hasCableService /\ ~result.isIPad
                THEN "notFIDO" ELSE "insufficient")

ScanResultOf(isIPad, uuid, data) ==
    [isIPad |-> isIPad, hasFIDOService |-> uuid = "fffd", hasCableService |-> uuid = "fff9",
     serviceData |-> IF uuid = "none" THEN <<>> ELSE <<[uuid |-> uuid, data |-> data]>>]

\* The devices: a FIDO device, a caBLE device, an iPad that advertises the
\* FIDO service, an iPad that does not, and a device with another service.
DeviceKinds == {<<FALSE, "fffd">>, <<FALSE, "fff9">>, <<TRUE, "fffd">>, <<TRUE, "none">>, <<FALSE, "180f">>}

\* What the adapter may deliver: every service data from a FIDO device, and
\* the 20-byte ones from the other devices.
ScanResults ==
    {ScanResultOf(x[1][1], x[1][2], x[2]) :
        x \in {y \in DeviceKinds \X AdvertData : y[1] = <<FALSE, "fffd">> \/ Len(y[2]) = 20}}

(***************************************************************************)
(* WaitForTunnelAdvertisement: the caller, the goroutine that runs         *)
(* adapter.Scan and its callback, and the goroutine that stops the scan    *)
(* when the context is done.                                               *)
(***************************************************************************)
NoScanResult == ScanResultOf(FALSE, "none", <<>>)
NoCallback == [fn |-> "none", ok |-> FALSE, outcome |-> "none", placed |-> <<>>, afterReturn |-> FALSE]
ContextCanceled == <<"context canceled">>

\* What WaitForTunnelAdvertisement returns, with the state of the context
\* at the return (kept for the properties only).
ScanReturn(info, err, context) == [info |-> info, err |-> err, ctx |-> context]

InitScan ==
    /\ w_pc = "idle"
    /\ w_ret = ScanReturn(NoTunnelInfo, NoError, "live")
    /\ s_ctx = "live"
    /\ g_pc = "none"
    /\ g_result = NoScanResult
    /\ g_count = 0
    /\ m_pc = "none"
    /\ a_stopCalls = 0
    /\ tunnelInfoChan = <<>>
    /\ scanErrChan = <<>>
    /\ scanDoneChan = <<>>
    /\ h_placed = <<>>
    /\ c_last = NoCallback

ScanFrame == UNCHANGED <<earlierVars, loopVars, writerVars, qrVars>>

\* WaitForTunnelAdvertisement is entered: the three channels are made and
\* the scan goroutine is started.
WaitForTunnelAdvertisement ==
    /\ w_pc = "idle"
    /\ w_pc' = "select"
    /\ g_pc' = "start"
    /\ c_last' = NoCallback
    /\ UNCHANGED <<w_ret, s_ctx, g_result, g_count, m_pc, a_stopCalls, tunnelInfoChan, scanErrChan,
                   scanDoneChan, h_placed>>
    /\ ScanFrame

\* The scan goroutine starts the goroutine that waits for ctx.Done() and
\* calls adapter.Scan.
ScanStart ==
    /\ g_pc = "start"
    /\ g_pc' = "scan"
    /\ m_pc' = "waiting"
    /\ UNCHANGED <<w_pc, w_ret, s_ctx, g_result, g_count, a_stopCalls, tunnelInfoChan, scanErrChan,
                   scanDoneChan, h_placed, c_last>>
    /\ ScanFrame

\* adapter.Scan returns an error without having delivered anything.
ScanFails ==
    /\ g_pc = "scan"
    /\ g_count = 0
    /\ g_pc' = "failed"
    /\ UNCHANGED <<w_pc, w_ret, s_ctx, g_result, g_count, m_pc, a_stopCalls, tunnelInfoChan, scanErrChan,
                   scanDoneChan, h_placed, c_last>>
    /\ ScanFrame

\* select { case scanErrChan <- err: case <-ctx.Done(): }
ScanErrSend ==
    /\ g_pc = "failed"
    /\ \/ Len(scanErrChan) < 1 /\ scanErrChan' = Append(scanErrChan, <<"scan failed">>)
       \/ s_ctx = "done" /\ scanErrChan' = scanErrChan
    /\ g_pc' = "deferred"
    /\ UNCHANGED <<w_pc, w_ret, s_ctx, g_result, g_count, m_pc, a_stopCalls, tunnelInfoChan,
                   scanDoneChan, h_placed, c_last>>
    /\ ScanFrame

\* adapter.Scan returns nil: it does so only after StopScan was called.
ScanReturns ==
    /\ g_pc = "scan"
    /\ a_stopCalls > 0
    /\ g_pc' = "deferred"
    /\ UNCHANGED <<w_pc, w_ret, s_ctx, g_result, g_count, m_pc, a_stopCalls, tunnelInfoChan, scanErrChan,
                   scanDoneChan, h_placed, c_last>>
    /\ ScanFrame

\* The deferred function of the scan goroutine: StopScan, scanDoneChan <- true.
ScanDeferred ==
    /\ g_pc = "deferred"
    /\ a_stopCalls' = a_stopCalls + 1
    /\ scanDoneChan' = Append(scanDoneChan, TRUE)
    /\ g_pc' = "exited"
    /\ UNCHANGED <<w_pc, w_ret, s_ctx, g_result, g_count, m_pc, tunnelInfoChan, scanErrChan, h_placed, c_last>>
    /\ ScanFrame

\* What was placed on the channel, with the state of the context at the time
\* (kept for the properties only).
Stamped(placed, context) ==
    [i \in DOMAIN placed |->
        [info |-> placed[i].info, data |-> placed[i].data, source |-> placed[i].source, ctx |-> context]]

\* The adapter delivers an advertisement: the callback returns at once when
\* the context is done and goes on to process it otherwise.
ScanCallback ==
    /\ g_pc = "scan"
    /\ g_count < MaxAdverts
    /\ g_count' = g_count + 1
    /\ \E result \in ScanResults :
         IF s_ctx = "done"
         THEN /\ g_pc' = g_pc
              /\ g_result' = g_result
              /\ c_last' = [NoCallback EXCEPT !.fn = "callback", !.outcome = "cancelled"]
         ELSE /\ g_pc' = "callback"
              /\ g_result' = result
              /\ c_last' = c_last
    /\ UNCHANGED <<w_pc, w_ret, s_ctx, m_pc, a_stopCalls, tunnelInfoChan, scanErrChan, scanDoneChan, h_placed>>
    /\ ScanFrame

\* The callback processes the advertisement.  (For the device of lines
\* 622-642 processTunnelAdvertisement is called a second time when the first
\* call returned false; the second call decides the same.)
CallbackProcess ==
    /\ g_pc = "callback"
    /\ LET r == processTunnelAdvertisement(ScannerSecret, g_result, tunnelInfoChan)
       IN  /\ tunnelInfoChan' = r.chan
           /\ h_placed' = h_placed \o Stamped(r.placed, s_ctx)
           /\ c_last' = [fn |-> "processTunnelAdvertisement", ok |-> r.ok, outcome |-> r.outcome,
                         placed |-> r.placed, afterReturn |-> w_pc = "returned"]
    /\ g_pc' = "scan"
    /\ g_result' = NoScanResult
    /\ UNCHANGED <<w_pc, w_ret, s_ctx, g_count, m_pc, a_stopCalls, scanErrChan, scanDoneChan>>
    /\ ScanFrame

\* The goroutine of lines 586-590: <-ctx.Done(); s.adapter.StopScan()
MonitorStop ==
    /\ m_pc = "waiting"
    /\ s_ctx = "done"
    /\ a_stopCalls' = a_stopCalls + 1
    /\ m_pc' = "done"
    /\ UNCHANGED <<w_pc, w_ret, s_ctx, g_pc, g_result, g_count, tunnelInfoChan, scanErrChan, scanDoneChan,
                   h_placed, c_last>>
    /\ ScanFrame

\* The caller's context is cancelled or times out.
CancelScanContext ==
    /\ s_ctx = "live"
    /\ s_ctx' = "done"
    /\ UNCHANGED <<w_pc, w_ret, g_pc, g_result, g_count, m_pc, a_stopCalls, tunnelInfoChan, scanErrChan,
                   scanDoneChan, h_placed, c_last>>
    /\ ScanFrame

\* The select of lines 659-676: one of the cases that are ready is taken.
\* case tunnelInfo := <-tunnelInfoChan
WaitReceiveInfo ==
    /\ w_pc = "select"
    /\ Len(tunnelInfoChan) > 0
    /\ w_ret' = ScanReturn(Head(tunnelInfoChan), NoError, s_ctx)
    /\ tunnelInfoChan' = Tail(tunnelInfoChan)
    /\ w_pc' = "returned"
    /\ UNCHANGED <<s_ctx, g_pc, g_result, g_count, m_pc, a_stopCalls, scanErrChan, scanDoneChan, h_placed, c_last>>
    /\ ScanFrame

\* case err := <-scanErrChan
WaitReceiveScanErr ==
    /\ w_pc = "select"
    /\ Len(scanErrChan) > 0
    /\ w_ret' = ScanReturn(NoTunnelInfo, <<"failed to start BLE scan">> \o Head(scanErrChan), s_ctx)
    /\ scanErrChan' = Tail(scanErrChan)
    /\ w_pc' = "returned"
    /\ UNCHANGED <<s_ctx, g_pc, g_result, g_count, m_pc, a_stopCalls, tunnelInfoChan, scanDoneChan, h_placed, c_last>>
    /\ ScanFrame

\* case <-ctx.Done()
WaitCtxDone ==
    /\ w_pc = "select"
    /\ s_ctx = "done"
    /\ w_pc' = "stopWait"
    /\ UNCHANGED <<w_ret, s_ctx, g_pc, g_result, g_count, m_pc, a_stopCalls, tunnelInfoChan, scanErrChan,
                   scanDoneChan, h_placed, c_last>>
    /\ ScanFrame

\* The inner select: case <-scanDoneChan
WaitScanDone ==
    /\ w_pc = "stopWait"
    /\ Len(scanDoneChan) > 0
    /\ scanDoneChan' = Tail(scanDoneChan)
    /\ w_ret' = ScanReturn(NoTunnelInfo, ContextCanceled, s_ctx)
    /\ w_pc' = "returned"
    /\ UNCHANGED <<s_ctx, g_pc, g_result, g_count, m_pc, a_stopCalls, tunnelInfoChan, scanErrChan, h_placed, c_last>>
    /\ ScanFrame

\* An inner select without the timer: the caller waits for the scan goroutine.
WaitStopTimeout_WaitsForScan ==
    /\ w_pc = "stopWait"
    /\ Len(scanDoneChan) > 0
    /\ w_ret' = ScanReturn(NoTunnelInfo, ContextCanceled, s_ctx)
    /\ w_pc' = "returned"
    /\ UNCHANGED <<s_ctx, g_pc, g_result, g_count, m_pc, a_stopCalls, tunnelInfoChan, scanErrChan,
                   scanDoneChan, h_placed, c_last>>
    /\ ScanFrame

\* The inner select: case <-time.After(2 * time.Second)
WaitStopTimeout ==
    /\ w_pc = "stopWait"
    /\ w_ret' = ScanReturn(NoTunnelInfo, ContextCanceled, s_ctx)
    /\ w_pc' = "returned"
    /\ UNCHANGED <<s_ctx, g_pc, g_result, g_count, m_pc, a_stopCalls, tunnelInfoChan, scanErrChan,
                   scanDoneChan, h_placed, c_last>>
    /\ ScanFrame

\* tryAppleManufacturerDataDecryption called on manufacturer data with a
\* channel of its own, as line 198 calls processTunnelAdvertisement.
TryAppleManufacturerData ==
    /\ w_pc = "idle"
    /\ \E manufacturerData \in AppleData :
         LET r == tryAppleManufacturerDataDecryption(ScannerSecret, manufacturerData, <<>>)
         IN  c_last' = [fn |-> "tryAppleManufacturerDataDecryption", ok |-> r.ok, outcome |-> r.outcome,
                        placed |-> r.placed, afterReturn |-> FALSE]
    /\ UNCHANGED <<w_pc, w_ret, s_ctx, g_pc, g_result, g_count, m_pc, a_stopCalls, tunnelInfoChan, scanErrChan,
                   scanDoneChan, h_placed>>
    /\ ScanFrame

NextScan ==
    \/ WaitForTunnelAdvertisement
    \/ ScanStart
    \/ ScanFails
    \/ ScanErrSend
    \/ ScanReturns
    \/ ScanDeferred
    \/ ScanCallback
    \/ CallbackProcess
    \/ MonitorStop
    \/ CancelScanContext
    \/ WaitReceiveInfo
    \/ WaitReceiveScanErr
    \/ WaitCtxDone
    \/ WaitScanDone
    \/ WaitStopTimeout
    \/ TryAppleManufacturerData

(***************************************************************************)
(* StartScanning and StopScanning: the callers, the scan loops and the     *)
(* goroutines that stop the scan when the context is done.                 *)
(***************************************************************************)
MaxLoops == 2

Callers == {1, 2}

\* Scanner.running is read and written without synchronisation: a read
\* yields the value in memory or the value the reading goroutine saw last.
RacyRead(seen) == {l_running, seen}

NewLoop(alive) ==
    [pc |-> "test", seen |-> TRUE, stop |-> FALSE, mon |-> "waiting", startedBeside |-> alive]

\* The loops whose goroutine has not exited.
Alive(loops) == {i \in DOMAIN loops : loops[i].pc # "exited"}

\* adapter.StopScan(): every adapter.Scan in progress returns.
StopScan(loops) ==
    [i \in DOMAIN loops |-> IF loops[i].pc = "scan" THEN [loops[i] EXCEPT !.stop = TRUE] ELSE loops[i]]

\* Another loop is inside adapter.Scan and has not been stopped.
AdapterBusy(i) == \E j \in DOMAIN l_loops : j # i /\ l_loops[j].pc = "scan" /\ ~l_loops[j].stop

InitLoop ==
    /\ l_running = FALSE
    /\ l_ctx = "live"
    /\ l_callers = [c \in Callers |-> [pc |-> "idle", seen |-> FALSE, ret |-> "none"]]
    /\ l_loops = <<>>

LoopFrame == UNCHANGED <<earlierVars, scanVars, writerVars, qrVars>>

\* StartScanning, lines 131-133: if s.running { return error }
StartScanningCheck(c) ==
    /\ l_callers[c].pc = "idle"
    /\ Len(l_loops) + Cardinality({d \in Callers : l_callers[d].pc = "starting"}) < MaxLoops
    /\ \E running \in RacyRead(l_callers[c].seen) :
         l_callers' = [l_callers EXCEPT ![c] =
                          IF running
                          THEN [pc |-> "idle", seen |-> running, ret |-> "scanner is already running"]
                          ELSE [pc |-> "starting", seen |-> running, ret |-> "none"]]
    /\ UNCHANGED <<l_running, l_ctx, l_loops>>
    /\ LoopFrame

\* StartScanning, lines 135-294: s.running = true, the loop goroutine and the
\* goroutine that waits for ctx.Done() are started, nil is returned.
StartScanningGo(c) ==
    /\ l_callers[c].pc = "starting"
    /\ l_running' = TRUE
    /\ l_loops' = Append(l_loops, NewLoop(Cardinality(Alive(l_loops))))
    /\ l_callers' = [l_callers EXCEPT ![c] = [pc |-> "idle", seen |-> TRUE, ret |-> "nil"]]
    /\ UNCHANGED l_ctx
    /\ LoopFrame

\* StopScanning, lines 312-315: if s.running { s.adapter.StopScan() ...
StopScanningCheck(c) ==
    /\ l_callers[c].pc = "idle"
    /\ \E running \in RacyRead(l_callers[c].seen) :
         IF running
         THEN /\ l_loops' = StopScan(l_loops)
              /\ l_callers' = [l_callers EXCEPT ![c].pc = "stopping", ![c].seen = running]
         ELSE /\ l_loops' = l_loops
              /\ l_callers' = [l_callers EXCEPT ![c].seen = running]
    /\ UNCHANGED <<l_running, l_ctx>>
    /\ LoopFrame

\* StopScanning, lines 316-322: s.running = false
StopScanningClear(c) ==
    /\ l_callers[c].pc = "stopping"
    /\ l_running' = FALSE
    /\ l_callers' = [l_callers EXCEPT ![c].pc = "idle", ![c].seen = FALSE]
    /\ UNCHANGED <<l_ctx, l_loops>>
    /\ LoopFrame

\* The context handed to StartScanning is cancelled.
CancelLoopContext ==
    /\ l_ctx = "live"
    /\ l_loops # <<>>
    /\ l_ctx' = "done"
    /\ UNCHANGED <<l_running, l_callers, l_loops>>
    /\ LoopFrame

\* The goroutine of lines 286-292: <-ctx.Done(); s.adapter.StopScan()
LoopMonitorStop(i) ==
    /\ l_loops[i].mon = "waiting"
    /\ l_ctx = "done"
    /\ l_loops' = StopScan([l_loops EXCEPT ![i].mon = "done"])
    /\ UNCHANGED <<l_running, l_ctx, l_callers>>
    /\ LoopFrame

\* for s.running
LoopTest(i) ==
    /\ l_loops[i].pc = "test"
    /\ \E running \in RacyRead(l_loops[i].seen) :
         l_loops' = [l_loops EXCEPT ![i].seen = running,
                                    ![i].pc = IF running THEN "select" ELSE "deferred"]
    /\ UNCHANGED <<l_running, l_ctx, l_callers>>
    /\ LoopFrame

\* select { case <-ctx.Done(): return; default: s.adapter.Scan(...) }
LoopSelect(i) ==
    /\ l_loops[i].pc = "select"
    /\ l_loops' = [l_loops EXCEPT ![i].pc = IF l_ctx = "done" THEN "deferred" ELSE "scan",
                                  ![i].stop = FALSE]
    /\ UNCHANGED <<l_running, l_ctx, l_callers>>
    /\ LoopFrame

\* adapter.Scan returns nil after StopScan.
LoopScanReturns(i) ==
    /\ l_loops[i].pc = "scan"
    /\ l_loops[i].stop
    /\ l_loops' = [l_loops EXCEPT ![i].pc = "sleep"]
    /\ UNCHANGED <<l_running, l_ctx, l_callers>>
    /\ LoopFrame

\* adapter.Scan returns an error: the adapter is scanning for another loop.
LoopScanFails(i) ==
    /\ l_loops[i].pc = "scan"
    /\ AdapterBusy(i)
    /\ l_loops' = [l_loops EXCEPT ![i].pc = "failed"]
    /\ UNCHANGED <<l_running, l_ctx, l_callers>>
    /\ LoopFrame

\* if err != nil { select { case <-ctx.Done(): return; default: } }
LoopAfterError(i) ==
    /\ l_loops[i].pc = "failed"
    /\ l_loops' = [l_loops EXCEPT ![i].pc = IF l_ctx = "done" THEN "deferred" ELSE "sleep"]
    /\ UNCHANGED <<l_running, l_ctx, l_callers>>
    /\ LoopFrame

\* select { case <-ctx.Done(): return; case <-time.After(1 * time.Second): }
LoopSleep(i) ==
    /\ l_loops[i].pc = "sleep"
    /\ \/ l_ctx = "done" /\ l_loops' = [l_loops EXCEPT ![i].pc = "deferred"]
       \/ l_loops' = [l_loops EXCEPT ![i].pc = "test"]
    /\ UNCHANGED <<l_running, l_ctx, l_callers>>
    /\ LoopFrame

\* The deferred function of the loop goroutine: s.running = false
LoopDeferred(i) ==
    /\ l_loops[i].pc = "deferred"
    /\ l_running' = FALSE
    /\ l_loops' = [l_loops EXCEPT ![i].pc = "exited", ![i].seen = FALSE]
    /\ UNCHANGED <<l_ctx, l_callers>>
    /\ LoopFrame

NextLoop ==
    \/ \E c \in Callers : StartScanningCheck(c)
    \/ \E c \in Callers : StartScanningGo(c)
    \/ \E c \in Callers : StopScanningCheck(c)
    \/ \E c \in Callers : StopScanningClear(c)
    \/ CancelLoopContext
    \/ \E i \in DOMAIN l_loops : LoopMonitorStop(i)
    \/ \E i \in DOMAIN l_loops : LoopTest(i)
    \/ \E i \in DOMAIN l_loops : LoopSelect(i)
    \/ \E i \in DOMAIN l_loops : LoopScanReturns(i)
    \/ \E i \in DOMAIN l_loops : LoopScanFails(i)
    \/ \E i \in DOMAIN l_loops : LoopAfterError(i)
    \/ \E i \in DOMAIN l_loops : LoopSleep(i)
    \/ \E i \in DOMAIN l_loops : LoopDeferred(i)
(***************************************************************************)
(* WriteMessage called on one Connection by several goroutines.            *)
(***************************************************************************)
MaxWrites == 2

Writers == {1, 2}

InitWriters ==
    /\ x_sequenceNo = 0
    /\ x_writers = [w \in Writers |-> [pc |-> "idle", calls |-> 0, message |-> <<>>, nonce |-> <<>>,
                                      read |-> 0, slot |-> 0]]
    /\ x_frames = <<>>
    /\ x_overlapped = FALSE

WriterFrame == UNCHANGED <<earlierVars, scanVars, loopVars, qrVars>>

\* WriteMessage is entered on a Connection that is established.
WriteMessageEnter(w) ==
    /\ x_writers[w].pc = "idle"
    /\ x_writers[w].calls < MaxWrites
    /\ x_writers' = [x_writers EXCEPT ![w].pc = "nonce", ![w].calls = @ + 1,
                                      ![w].message = <<w, x_writers[w].calls>>]
    /\ x_overlapped' = (x_overlapped \/ \E v \in Writers \ {w} : x_writers[v].pc # "idle")
    /\ UNCHANGED <<x_sequenceNo, x_frames>>
    /\ WriterFrame

\* binary.LittleEndian.PutUint64(nonce[:8], c.sequenceNo)
EncryptPutNonce(w) ==
    /\ x_writers[w].pc = "nonce"
    /\ x_writers' = [x_writers EXCEPT ![w].pc = "load", ![w].read = x_sequenceNo,
                                      ![w].nonce = PutUint64(x_sequenceNo) \o Zeros(4)]
    /\ UNCHANGED <<x_sequenceNo, x_frames, x_overlapped>>
    /\ WriterFrame

\* c.sequenceNo++, the read: without synchronisation it yields the value in
\* memory or the value this goroutine has just read for the nonce.
EncryptLoad(w) ==
    /\ x_writers[w].pc = "load"
    /\ \E v \in {x_sequenceNo, x_writers[w].read} :
         x_writers' = [x_writers EXCEPT ![w].pc = "store", ![w].read = v]
    /\ UNCHANGED <<x_sequenceNo, x_frames, x_overlapped>>
    /\ WriterFrame

\* A counter that is written back as it was read.
EncryptStore_NoIncrement(w) ==
    /\ x_writers[w].pc = "store"
    /\ x_sequenceNo' = x_writers[w].read
    /\ x_writers' = [x_writers EXCEPT ![w].pc = "seal"]
    /\ UNCHANGED <<x_frames, x_overlapped>>
    /\ WriterFrame

\* c.sequenceNo++, the write (the counter stays far below 2^64 here)
EncryptStore(w) ==
    /\ x_writers[w].pc = "store"
    /\ x_sequenceNo' = x_writers[w].read + 1
    /\ x_writers' = [x_writers EXCEPT ![w].pc = "seal"]
    /\ UNCHANGED <<x_frames, x_overlapped>>
    /\ WriterFrame

\* cipher.Seal(nil, nonce, message, nil) and append(nonce, ciphertext...):
\* the frame is kept as its nonce and the message it seals.
EncryptSeal(w) ==
    /\ x_writers[w].pc = "seal"
    /\ x_frames' = Append(x_frames, [nonce |-> x_writers[w].nonce, message |-> x_writers[w].message,
                                     written |-> FALSE])
    /\ x_writers' = [x_writers EXCEPT ![w].pc = "write", ![w].slot = Len(x_frames) + 1]
    /\ UNCHANGED <<x_sequenceNo, x_overlapped>>
    /\ WriterFrame

\* c.conn.WriteMessage(websocket.BinaryMessage, encryptedMessage)
ConnWriteMessage(w) ==
    /\ x_writers[w].pc = "write"
    /\ x_frames' = [x_frames EXCEPT ![x_writers[w].slot].written = TRUE]
    /\ x_writers' = [x_writers EXCEPT ![w].pc = "idle"]
    /\ UNCHANGED <<x_sequenceNo, x_overlapped>>
    /\ WriterFrame

NextWriters ==
    \/ \E w \in Writers : WriteMessageEnter(w)
    \/ \E w \in Writers : EncryptPutNonce(w)
    \/ \E w \in Writers : EncryptLoad(w)
    \/ \E w \in Writers : EncryptStore(w)
    \/ \E w \in Writers : EncryptSeal(w)
    \/ \E w \in Writers : ConnWriteMessage(w)

(***************************************************************************)
(* Package qrcode: the package variables qrSecret and identityKey, and the *)
(* QRData values that GenerateQRData hands out.                            *)
(***************************************************************************)
MaxQRDatas == 2

NoIdentityKey == [nil |-> TRUE]

\* qrSecret[:], a slice of the package array: it holds no bytes of its own.
QRSecretSlice == [array |-> "qrSecret", low |-> 0, high |-> 16]

\* The bytes a slice of the package array reads as.
SliceBytes(slice, array) == Slice(array, slice.low, slice.high)

\* A QRData in memory, and beside it the bytes its fields read as when
\* GenerateQRData returned it (kept for the properties only).
Handed(qrData, secret) ==
    [qrData |-> qrData, returned |-> [PublicKey |-> qrData.PublicKey, QRSecret |-> secret]]

InitQR ==
    /\ y_qrSecret = Zeros(16)
    /\ y_identityKey = NoIdentityKey
    /\ y_qrDatas = <<>>
    /\ y_shown = <<>>

QRFrame == UNCHANGED <<earlierVars, scanVars, loopVars, writerVars>>

\* GenerateQRData with the package variables it writes: rand.Reader.Read
\* fills qrSecret, identityKey is replaced, and the QRData returned has
\* qrSecret[:] as its QRSecret and a slice of a fresh array as its PublicKey.
GenerateQRDataGlobals ==
    /\ Len(y_qrDatas) < MaxQRDatas
    /\ \E identityKey \in IdentityKeys, secret \in QRSecrets, tunnelID \in RandomTunnelIDs :
         /\ y_qrSecret' = secret
         /\ y_identityKey' = identityKey
         /\ y_qrDatas' = Append(y_qrDatas,
                                Handed(GenerateQRData(compressECKey(identityKey), QRSecretSlice, tunnelID), secret))
    /\ UNCHANGED y_shown
    /\ QRFrame

\* showQRCode with the package variables it writes.
ShowQRCodeGlobals ==
    /\ \E identityKey \in IdentityKeys, secret \in QRSecrets :
         /\ y_qrSecret' = secret
         /\ y_identityKey' = identityKey
         /\ y_shown' = encodeQRContents(compressECKey(identityKey), secret, 1, I64(1700000000)).qr
    /\ UNCHANGED y_qrDatas
    /\ QRFrame

NextQR ==
    \/ GenerateQRDataGlobals
    \/ ShowQRCodeGlobals


Init == InitBle /\ InitTunnel /\ InitKeys /\ InitCodec /\ InitScan /\ InitLoop /\ InitWriters /\ InitQR

\* The advertisement decryptor alone, the tunnel alone, and both.
SpecBle == Init /\ [][NextBle]_vars

SpecTunnel == Init /\ [][NextTunnel]_vars

SpecSession == Init /\ [][NextSession]_vars

\* The key derivations alone.
SpecKeys == Init /\ [][NextKeys]_vars

\* The conversions of package qrcode and the advert parser alone.
SpecCodec == Init /\ [][NextCodec]_vars

\* The steps the desktop takes by itself are taken; what the peer, the relay
\* and the owner of the context do is not forced.
\* PerformHandshakeSend is enabled exactly at "dialed" and every step of it
\* leaves "dialed", so its weak fairness is that the desktop does not stay there.
SpecHandshakeLive ==
    Init /\ [][NextHandshake]_vars
         /\ WF_vars(NewClient) /\ WF_vars(Dial) /\ []<>(t_pc # "dialed")

\* WaitForTunnelAdvertisement alone.
SpecScan == Init /\ [][NextScan]_vars

\* The steps the goroutines of WaitForTunnelAdvertisement take by themselves
\* are taken: the scan goroutine does not stop outside adapter.Scan, the
\* monitor calls StopScan once the context is done, and the caller takes a
\* case of its select when one is ready, the timer of the inner select
\* included.  What the caller does with the context and what the adapter
\* does (deliver, fail, return from Scan once StopScan was called) is not
\* forced.  CallbackProcess is enabled exactly at "callback" and every step
\* of it leaves "callback", so its weak fairness is that the scan goroutine
\* does not stay there.
ScanGoroutineStep == ScanStart \/ ScanErrSend \/ ScanDeferred

CallerStep == WaitReceiveInfo \/ WaitReceiveScanErr \/ WaitCtxDone \/ WaitScanDone \/ WaitStopTimeout

SpecScanLive ==
    Init /\ [][NextScan]_vars
         /\ WF_vars(ScanGoroutineStep) /\ []<>(g_pc # "callback")
         /\ WF_vars(MonitorStop) /\ WF_vars(CallerStep)

\* StartScanning and StopScanning alone.
SpecLoop == Init /\ [][NextLoop]_vars

\* Concurrent WriteMessage calls alone.
SpecWriters == Init /\ [][NextWriters]_vars

\* GenerateQRData and showQRCode with the package variables alone.
SpecQR == Init /\ [][NextQR]_vars

Next ==
    NextBle \/ NextTunnel \/ NextSession \/ NextKeys \/ NextCodec \/ NextScan \/ NextLoop \/ NextWriters \/ NextQR

Spec == Init /\ [][Next]_vars

(***************************************************************************)
(* Properties of DecryptServiceData and trialDecrypt.                      *)
(***************************************************************************)
AuthFailure == [returned |-> TRUE, data |-> NoData, err |-> <<"caBLE v2 authentication/decryption failed">>]

\* The conditions of the caBLE v2 trial decryption, stated on the primitives.
TagValid(key, data) ==
    SubSeq(HMACSHA256(SubSeq(key, 33, 64), SubSeq(data, 1, 16)), 1, 4) = SubSeq(data, 17, Len(data))
BlockPlain(key, data) == AESDecrypt(SubSeq(key, 1, 32), SubSeq(data, 1, 16))
Purpose1Key(secret) == HKDF(secret, <<>>, <<1, 0, 0, 0>>, 64)

Returned == d_pc = "done" /\ d_caller = "DecryptServiceData"
TrialReturned == d_pc \in {"return", "done"} /\ Len(encryptedData) = 20 /\ "hmac" \in Range(d_ops)

\* C1: DecryptServiceData returns a plaintext only for a 20-byte candidate
\* whose last 4 bytes are the first 4 bytes of HMAC-SHA256(EIDKey[32:64],
\* candidate[0:16]) and whose block decrypts under EIDKey[0:32] to a first
\* byte of 0, EIDKey being the 64-byte HKDF output for purpose 1; it then
\* returns exactly that decryption, and in every other case an error and no
\* plaintext.
C1_DecryptContract ==
    Returned =>
        IF /\ Len(encryptedData) = 20
           /\ TagValid(Purpose1Key(qrSecret), encryptedData)
           /\ BlockPlain(Purpose1Key(qrSecret), encryptedData)[1] = 0
        THEN d_ret.err = NoError /\ d_ret.data = BlockPlain(Purpose1Key(qrSecret), encryptedData)
        ELSE d_ret.err # NoError /\ d_ret.data = NoData

C1_Witness ==
    /\ Returned
    /\ d_ret.err = NoError
    /\ Len(d_ret.data) = 16
    /\ d_ret.data[1] = 0

\* C5: the truncated-HMAC comparison comes strictly before the AES step:
\* the AES step is reached only after a matching tag, and a candidate whose
\* tag differs is rejected with no AES decryption executed and no decrypted
\* byte produced.
C5_TagBeforeAes ==
    /\ d_pc = "trialBlock" => TagValid(eidKey, encryptedData)
    /\ "aes" \in Range(d_ops) =>
          /\ TagValid(eidKey, encryptedData)
          /\ \E i, j \in DOMAIN d_ops : i < j /\ d_ops[i] = "hmac" /\ d_ops[j] = "aes"
    /\ (TrialReturned /\ ~TagValid(eidKey, encryptedData)) =>
          /\ "aes" \notin Range(d_ops)
          /\ ~ok
          /\ plaintext = Zeros(16)
          /\ d_ret.data = NoData

C5_Witness ==
    /\ d_pc = "done"
    /\ Len(encryptedData) = 20
    /\ "hmac" \in Range(d_ops)
    /\ ~TagValid(eidKey, encryptedData)
    /\ BlockPlain(eidKey, encryptedData)[1] = 0

\* C6: a candidate that is not exactly 20 bytes long, shorter or longer, is
\* rejected by DecryptServiceData before the EID key is derived and before
\* any HMAC or AES operation.
C6_LengthFirst ==
    (d_caller = "DecryptServiceData" /\ d_pc # "length" /\ Len(encryptedData) # 20) =>
        /\ d_pc = "done"
        /\ d_ops = <<>>
        /\ eidKey = Zeros(64)
        /\ d_ret.returned
        /\ d_ret.err # NoError
        /\ d_ret.data = NoData

C6_Witness ==
    /\ Returned
    /\ Len(encryptedData) = 21
    /\ d_ret.err # NoError

\* C7: a candidate with a valid tag whose decrypted first byte is not 0 is
\* rejected: reservedBitsAreZero holds exactly for a first byte of 0, the
\* rejected trialDecrypt returns the all-zero block with ok = false, and
\* DecryptServiceData returns an error and none of the decrypted bytes.
C7_ReservedRejected ==
    /\ \A p \in Plaintexts : reservedBitsAreZero(p) <=> (p[1] = 0)
    /\ (/\ TrialReturned
        /\ TagValid(eidKey, encryptedData)
        /\ BlockPlain(eidKey, encryptedData)[1] # 0) =>
          /\ ~ok
          /\ plaintext = Zeros(16)
          /\ Returned => (d_ret.err # NoError /\ d_ret.data = NoData)

C7_Witness ==
    /\ Returned
    /\ Len(encryptedData) = CableV2AdvertLength
    /\ TagValid(eidKey, encryptedData)
    /\ BlockPlain(eidKey, encryptedData)[1] = 1
    /\ d_ret.err # NoError

\* C8: for a 20-byte candidate the failure DecryptServiceData returns is one
\* and the same value, whether the tag differed or the reserved byte was not
\* 0; only the length check returns a different error.
C8_FailuresAlike ==
    (Returned /\ d_ret.err # NoError) =>
        IF Len(encryptedData) = 20
        THEN d_ret = AuthFailure
        ELSE d_ret # AuthFailure /\ d_ops = <<>>

C8_Witness ==
    /\ Returned
    /\ d_ret = AuthFailure
    /\ "aes" \in Range(d_ops)

\* C9: for every 16-byte plaintext P with P[0] = 0 and every EID key, the
\* candidate made of the AES encryption of P under EIDKey[0:32] followed by
\* the first 4 bytes of HMAC-SHA256(EIDKey[32:64], ciphertext) is accepted by
\* trial decryption, which returns P.
C9_RoundTrip ==
    \A p \in Plaintexts :
        (/\ d_pc \in {"return", "done"}
         /\ p[1] = 0
         /\ encryptedData = BuildAdvert(eidKey, p)) => (ok /\ plaintext = p)

C9_Witness ==
    /\ d_pc = "done"
    /\ d_caller = "trialDecrypt"
    /\ eidKey \notin {EIDKeyOf(s) : s \in QRSecrets}
    /\ ok
    /\ \E p \in Plaintexts : p[1] = 0 /\ encryptedData = BuildAdvert(eidKey, p) /\ plaintext = p

\* C10: when any single bit of a candidate that DecryptServiceData accepts
\* is changed, in the 16-byte block or in the 4-byte tag, DecryptServiceData
\* fails on the changed candidate.
C10_BitFlipRejected ==
    (Returned /\ d_flipped) => (d_ret.err # NoError /\ d_ret.data = NoData)

C10_Witness ==
    /\ Returned
    /\ d_flipped
    /\ TagValid(eidKey, encryptedData) = FALSE
    /\ d_ret = AuthFailure

(***************************************************************************)
(* Properties of the handshake and of the session framing.                 *)
(***************************************************************************)
\* C2: performHandshake yields a Connection only if the response was
\* produced by a peer that holds the handshake key; no message the relay can
\* build from the traffic it has seen, the desktop's own initial message
\* echoed back included, completes the handshake.
C2_OnlyKeyHolderCompletes ==
    connection.established => respFrom = "phone"

\* The 12-byte nonce of the k-th frame, k counted from 0 and below 2^16.
FrameNonce(k) ==
    [i \in 1..12 |-> IF i = 1 THEN k % 256 ELSE IF i = 2 THEN k \div 256 ELSE 0]

\* The frame of message m under key K and counter k: the nonce, then the
\* message sealed under that nonce with no associated data.  Tabulated for
\* the encrypt keys a handshake can end with.
SendKeys ==
    {deriveSessionKeys(deriveHandshakeKey(s), DesktopKey, pk).encryptKey :
        s \in QRSecrets, pk \in PhoneKeys \cup {DesktopKey}}
FrameTable ==
    [K \in SendKeys |-> [k \in 0..MaxSends |-> [m \in Messages |->
        FrameNonce(k) \o AEADSeal(K, FrameNonce(k), m, <<>>)]]]
ExpectedFrame(K, k, m) ==
    IF K \in SendKeys /\ k \in 0..MaxSends /\ m \in Messages
    THEN FrameTable[K][k][m]
    ELSE FrameNonce(k) \o AEADSeal(K, FrameNonce(k), m, <<>>)

\* C3: the send counter starts at 0; the k-th encryptMessage call, k counted
\* from 0, seals under the nonce made of the 8-byte little-endian k and 4
\* zero bytes, prepends that nonce to the ciphertext and leaves the counter
\* at k+1, so no two frames of a Connection share a nonce, also when the
\* write of an earlier frame failed.
C3_NonceSequence ==
    /\ connection.sequenceNo = Len(sealed)
    /\ \A k \in 1..Len(sealed) :
          sealed[k].frame = ExpectedFrame(connection.encryptKey, k - 1, sealed[k].message)
    /\ \A i, j \in 1..Len(sealed) :
          i # j => SubSeq(sealed[i].frame, 1, 12) # SubSeq(sealed[j].frame, 1, 12)

C3_Witness ==
    /\ Len(sealed) = 2
    /\ ~sealed[1].written
    /\ sealed[2].written
    /\ sealed[1].message = sealed[2].message
    /\ connection.sequenceNo = 2

\* C4: for one handshake key and public keys A and B, the encrypt key of the
\* side whose own key is A and whose peer key is B is the decrypt key of the
\* side whose own key is B and whose peer key is A, and the other way round,
\* both sides running deriveSessionKeys.
C4_SessionKeysSymmetric ==
    (connection.established /\ respFrom = "phone") =>
        /\ connection.encryptKey = peerKeys.decryptKey
        /\ connection.decryptKey = peerKeys.encryptKey

\* The adverts a phone that scanned secret s broadcasts, per modelled secret.
AdvertsBySecret ==
    [s \in QRSecrets |-> {BuildAdvert(EIDKeyOf(s), p) : p \in Plaintexts}]

\* C11: a candidate produced under one QR secret is rejected by
\* DecryptServiceData when the decryptor was created with any different QR
\* secret: it returns an error and no plaintext.
C11_WrongSecretRejected ==
    \A s \in QRSecrets :
        (Returned /\ s # qrSecret /\ encryptedData \in AdvertsBySecret[s]) =>
            (d_ret.err # NoError /\ d_ret.data = NoData)

C11_Witness ==
    /\ Returned
    /\ \E s \in QRSecrets, p \in Plaintexts :
          /\ s # qrSecret
          /\ p[1] = 0
          /\ encryptedData = BuildAdvert(Purpose1Key(s), p)
    /\ "hmac" \in Range(d_ops)
    /\ d_ret = AuthFailure

(***************************************************************************)
(* Properties of the connection attempt, the message loop and the tunnel   *)
(* identifiers.                                                            *)
(***************************************************************************)
HandshakeSteps == <<"write", "read", "open", "keys">>

\* The response the desktop read opens under its handshake key with the
\* response's first 33 bytes as associated data.
ResponseOpens ==
    /\ Len(response) >= 45
    /\ AEADOpen(client.handshakeKey, SubSeq(response, 34, 45), SubSeq(response, 46, Len(response)),
                SubSeq(response, 1, 33)).ok

\* The initial messages of a desktop holding secret s.
InitialMessages ==
    [s \in QRSecrets |->
        {DesktopKey \o n \o AEADSeal(deriveHandshakeKey(s), n, DesktopPayload, DesktopKey) : n \in DesktopNonces}]

C12_StateOrder ==
    /\ \E n \in 0..4 : t_ops = SubSeq(HandshakeSteps, 1, n)
    /\ t_pc = "sentInitial" => (t_ops = <<"write">> /\ Len(relay) = 1 /\ response = <<>>)
    /\ "read" \in Range(t_ops) =>
          (Len(relay) >= 1 /\ client.qrSecret \in QRSecrets /\ relay[1] \in InitialMessages[client.qrSecret])
    /\ connection.established <=> t_ops = HandshakeSteps
    /\ connection.established =>
          /\ ResponseOpens
          /\ Len(connection.encryptKey) = 32 /\ Len(connection.decryptKey) = 32
          /\ connection.sequenceNo = Len(sealed)
    /\ (sealed # <<>> \/ received # <<>>) => connection.established

C12_StepOrder ==
    /\ t_pc' = "sentInitial" => (t_pc \in {"dialed", "sentInitial"} /\ ~connection.established)
    /\ t_pc' = "completed" => t_pc \in {"sentInitial", "completed"}
    /\ (~connection.established /\ connection'.established) =>
          (t_pc = "sentInitial" /\ connection'.sequenceNo = 0 /\ sealed' = <<>> /\ received' = <<>>)
    /\ connection.established => connection'.established

\* C12: the desktop handshake goes Idle, SentInitial, Completed in that order:
\* performHandshake writes exactly one initial message to the relay before it
\* reads anything, then reads exactly one response; a Connection (session
\* keys present, sequence counter 0) exists only after that response has been
\* AEAD-opened successfully, and no session frame is encrypted or decrypted
\* before that point.
C12_HandshakeOrder == [](C12_StateOrder) /\ [][C12_StepOrder]_vars

C12_Witness ==
    /\ t_pc = "completed"
    /\ t_ops = HandshakeSteps
    /\ Len(received) = 2
    /\ Len(sealed) = 1

\* WaitForConnection has returned an error and no Connection, and the
\* websocket to the relay is closed.
AttemptFailedAndClosed ==
    /\ t_pc = "failed"
    /\ connection = NoConnection
    /\ "keys" \notin Range(t_ops)
    /\ ~wsOpen

\* C13: processHandshakeResponse rejects a response shorter than 45 bytes
\* without attempting the AEAD open, and rejects a response whose AEAD open
\* under the handshake key with the peer public key as associated data fails;
\* in both cases no session keys are derived, WaitForConnection returns an
\* error and no Connection, and the relay stream is closed.
C13_BadResponseRejected ==
    respFrom # "none" =>
        /\ Len(response) < 45 =>
              /\ "open" \notin Range(t_ops)
              /\ t_err = <<"handshake response too short", Len(response)>>
              /\ AttemptFailedAndClosed
        /\ (Len(response) >= 45 /\ ~ResponseOpens) =>
              /\ "open" \in Range(t_ops)
              /\ t_err = <<"decryption failed">>
              /\ AttemptFailedAndClosed

C13_Witness ==
    /\ respFrom = "relay"
    /\ Len(response) = 44
    /\ "open" \notin Range(t_ops)
    /\ AttemptFailedAndClosed

\* The frame encryptMessage produces under key K with send counter k for message m.
SealedUnder(K, k, m) ==
    encryptMessage([established |-> TRUE, encryptKey |-> K, decryptKey |-> K, sequenceNo |-> k], m).frame

\* The same, tabulated for the receive keys a handshake with a phone can end with.
ReceiveKeys == {sess.conn.decryptKey : sess \in Sessions}
PeerFrameTable ==
    [K \in ReceiveKeys |-> [k \in PeerCounters |-> [m \in PeerMessages |-> SealedUnder(K, k, m)]]]
PeerFrame(K, k, m) ==
    IF K \in ReceiveKeys /\ k \in PeerCounters /\ m \in PeerMessages
    THEN PeerFrameTable[K][k][m]
    ELSE SealedUnder(K, k, m)

\* C14: for every plaintext of length 0, 1 or more than one cipher block and
\* every counter value, the frame encryptMessage produces under key K is
\* accepted by decryptMessage on a Connection whose receive key is K, and the
\* result is the original plaintext.
C14_FrameRoundTrip ==
    \A i \in 1..Len(received) :
        received[i].kind = "peer" =>
            /\ received[i].frame = PeerFrame(connection.decryptKey, received[i].counter, received[i].message)
            /\ received[i].err = NoError
            /\ received[i].plaintext = received[i].message

C14_Witness ==
    /\ Len(received) = 2
    /\ received[1].kind = "peer" /\ received[1].message = <<>> /\ received[1].counter = 258
    /\ received[2].kind = "peer" /\ received[2].message = PeerLong /\ received[2].counter = 0
    /\ received[1].err = NoError /\ received[1].plaintext = <<>>
    /\ received[2].err = NoError /\ received[2].plaintext = PeerLong

\* The frame opens under receive key K; tabulated for the frames the model
\* delivers to the sessions a handshake with a phone can end with.
FrameOpensUnder(K, frame) ==
    /\ Len(frame) >= 28
    /\ AEADOpen(K, SubSeq(frame, 1, 12), SubSeq(frame, 13, Len(frame)), <<>>).ok
OpensTable ==
    [sess \in Sessions |->
        [frame \in {incoming.frame : incoming \in IncomingTable[sess]} |->
            FrameOpensUnder(sess.conn.decryptKey, frame)]]
FrameOpens(frame) ==
    LET sess == SessionOf(connection, peerKeys)
    IN  IF sess \in Sessions /\ frame \in DOMAIN OpensTable[sess]
        THEN OpensTable[sess][frame]
        ELSE FrameOpensUnder(connection.decryptKey, frame)

C15_Rejected ==
    \A i \in 1..Len(received) :
        received[i].kind # "none" =>
            /\ Len(received[i].frame) < 28 =>
                  /\ received[i].err = <<"encrypted message too short", Len(received[i].frame)>>
                  /\ received[i].plaintext = NoData
            /\ (Len(received[i].frame) >= 28 /\ ~FrameOpens(received[i].frame)) =>
                  /\ received[i].err = <<"decryption failed">>
                  /\ received[i].plaintext = NoData

C15_ConnectionKept ==
    (received' # received /\ received'[Len(received')].err # NoError) => connection' = connection

\* C15: decryptMessage rejects every frame shorter than 28 bytes and every
\* frame whose AEAD open under the receive key fails, returning an error and
\* no plaintext, and in both cases leaves the Connection's keys and send
\* sequence counter as they were.
C15_BadFrameRejected == [](C15_Rejected) /\ [][C15_ConnectionKept]_vars

C15_Witness ==
    /\ Len(received) = 2
    /\ received[1].kind = "short" /\ received[1].err = <<"encrypted message too short", 27>>
    /\ received[2].kind = "tampered" /\ received[2].err = <<"decryption failed">>
    /\ connection.sequenceNo = 1
    /\ Len(connection.decryptKey) = 32

\* C16: decryptMessage keeps no receive-side sequence state: an authentic
\* frame is accepted whatever counter its nonce carries, so the same frame
\* delivered twice, and frames delivered in an order different from the
\* order of their nonces, are each decrypted successfully.
C16_NoReceiveSequence ==
    (/\ Len(received) = 2
     /\ received[1].kind = "peer" /\ received[2].kind = "peer"
     /\ received[1].err = NoError
     /\ \/ received[2].frame = received[1].frame
        \/ received[2].counter <= received[1].counter) =>
        /\ SubSeq(received[2].frame, 1, 12) = FrameNonce(received[2].counter)
        /\ received[2].err = NoError
        /\ received[2].plaintext = received[2].message

C16_Witness ==
    /\ Len(received) = 2
    /\ received[1].kind = "peer" /\ received[1].counter = 258 /\ received[1].err = NoError
    /\ received[2].kind = "peer" /\ received[2].counter = 0 /\ received[2].err = NoError
    /\ received[2].message = received[2].plaintext /\ received[2].message = <<4>>

\* ReadMessage returned an error of decryptMessage: the frame was too short
\* or did not authenticate.
DecryptionFailed(outcome) ==
    /\ outcome.kind # "none"
    /\ outcome.err # NoError

\* C17: a frame that fails decryption (too short or authentication failure)
\* is fatal for the connection: after ReadMessage has returned such an error
\* the message loop of runHybridTransport reads no further frame from that
\* connection and does not continue the session.
C17_DecryptFailureFatal ==
    \A i \in 1..Len(received) : DecryptionFailed(received[i]) => i = Len(received)

\* C18: in runHybridTransport, whenever the trial decryption of an
\* advertisement has succeeded and WaitForTunnelAdvertisement has returned a
\* TunnelInfo, the routing fields and the keys of the generated QR data are
\* accepted by tunnel.NewClient, and the relay connection and the handshake
\* are then attempted.
C18_QRDataAccepted ==
    t_caller = "runHybridTransport" =>
        /\ t_err = NoError
        /\ t_pc # "rejected"
        /\ client.qrSecret \in QRSecrets
        /\ client.routingID \in RoutingIDs

\* C19: cancelling or timing out the context passed to WaitForConnection
\* aborts a handshake that is blocked waiting for the peer's response: if the
\* peer never answers, WaitForConnection still returns with an error after
\* the context is done.
C19_CancelAbortsHandshake ==
    (ctx = "done" /\ t_pc = "sentInitial") ~> (t_pc \in {"failed", "completed"})

\* The value of a lower-case hexadecimal digit, and the bytes a hex string spells.
HexValue(ch) == CHOOSE v \in 0..15 : HexDigits[v + 1] = ch
SpellsBytes(hex, bytes) ==
    /\ Len(hex) = 2 * Len(bytes)
    /\ \A i \in 1..Len(bytes) : 16 * HexValue(hex[2 * i - 1]) + HexValue(hex[2 * i]) = bytes[i]

\* The 16-byte HKDF output for purpose 2 of each secret, computed on the
\* primitive and by derive.
Purpose2Key == [s \in QRSecrets |-> HKDF(s, <<>>, <<2, 0, 0, 0>>, 16)]
DerivePurpose2 == [s \in QRSecrets |-> derive(16, s, <<>>, 2).output]

C20_TunnelIDFromSecret ==
    client # NoClient =>
        /\ Len(client.tunnelID) = 16
        /\ client.qrSecret \in QRSecrets
        /\ client.tunnelID = Purpose2Key[client.qrSecret]
        /\ client.tunnelID = DerivePurpose2[client.qrSecret]
        /\ wsURL # <<>> =>
              /\ Len(wsURL) = 6
              /\ wsURL[1] = "wss://" /\ wsURL[2] = client.tunnelURL.host
              /\ wsURL[3] = "/cable/connect/" /\ wsURL[5] = "/"
              /\ SpellsBytes(wsURL[4], client.routingID)
              /\ SpellsBytes(wsURL[6], client.tunnelID)

C20_OnlyRoutingIDChanges ==
    (client # NoClient /\ t_pc = "client" /\ t_pc' = "client") =>
        client' = [client EXCEPT !.routingID = client'.routingID]

SameDeriveArguments(a, b) ==
    /\ a.fn = "derive" /\ b.fn = "derive"
    /\ a.n = b.n /\ a.key = b.key /\ a.salt = b.salt /\ a.purpose = b.purpose

\* C21: derive is a function of the length of output, the secret, the salt
\* and the purpose alone: two calls with the same arguments return the same
\* error and leave the same bytes in output, on whichever decryptor instance
\* they are made and whatever was derived before.
C21_DeriveDeterministic ==
    \A i, j \in DOMAIN k_calls :
        SameDeriveArguments(k_calls[i], k_calls[j]) =>
            /\ k_calls[i].err = k_calls[j].err
            /\ k_calls[i].output = k_calls[j].output
            /\ k_calls[i].err = NoError => k_calls[i].output # Filler(k_calls[i].n)

\* Two successful calls with the same arguments on different decryptor
\* instances, the instance of the second holding another secret than the
\* one handed in.
C21_Witness ==
    /\ Len(k_calls) = 2
    /\ SameDeriveArguments(k_calls[1], k_calls[2])
    /\ k_calls[1].decryptor # k_calls[2].decryptor
    /\ k_calls[2].decryptor.qrSecret # k_calls[2].key
    /\ k_calls[2].err = NoError
    /\ k_calls[2].n = CableV2EIDKeyLength

\* The derivations that returned a key.
Derivations == {k_calls[i] : i \in {j \in DOMAIN k_calls : k_calls[j].err = NoError}}

\* HKDF of every (input key, salt, info, length) a derivation of the model records.
KdfRequest(e) == <<e.key, e.salt, e.info, e.n>>
KdfTable ==
    [r \in {KdfRequest(e) : e \in UNION {DeriveEntries[d] : d \in Decryptors}
                                     \cup TunnelIDEntries \cup HandshakeKeyEntries \cup SessionKeysEntries} |->
        HKDF(r[1], r[2], r[3], r[4])]

\* The info of each role, and the key each derivation returned is HKDF of
\* the input key and info recorded for it.
C22_InfoOfRole ==
    \A e \in Derivations :
        /\ e.output = KdfTable[KdfRequest(e)]
        /\ e.role = "EIDKey" => e.info = <<1, 0, 0, 0>>
        /\ e.role = "TunnelID" => e.info = <<2, 0, 0, 0>>
        /\ e.role = "PSK" => e.info = <<3, 0, 0, 0>>
        /\ e.role = "HandshakeKey" => e.info = LabelHandshake
        /\ e.role = "SessionKeys" =>
              /\ SubSeq(e.info, 1, Len(LabelSession)) = LabelSession
              /\ LabelSession # LabelHandshake
              /\ \E pk \in PhoneKeys : e.info = LabelSession \o DesktopKey \o pk
        /\ e.role \in {"EIDKey", "TunnelID", "PSK", "HandshakeKey", "SessionKeys"}

\* C22: the HKDF info values are pairwise distinct across roles: derive uses
\* [purpose,0,0,0] with EIDKey=1, TunnelID=2, PSK=3, the handshake key a fixed
\* label and the session keys another label followed by both public keys, and
\* no two derivations of different roles share their (input key, info) pair.
C22_RolesSeparated ==
    /\ C22_InfoOfRole
    /\ \A a, b \in Derivations :
          a.role # b.role => <<a.key, a.info>> # <<b.key, b.info>>

\* The tunnel ID and the handshake key of one QR secret have both been derived.
C22_Witness ==
    /\ Len(k_calls) = 2
    /\ k_calls[1].role = "TunnelID" /\ k_calls[2].role = "HandshakeKey"
    /\ k_calls[1].key = k_calls[2].key
    /\ k_calls[1].key \in QRSecrets

(***************************************************************************)
(* C23: the fields of a decrypted advertisement.                           *)
(***************************************************************************)
\* C23: for a 16-byte plaintext P, UnpackDecryptedAdvert returns nonce
\* P[1..10], routing ID P[11..13] and domain index P[14] + 256 * P[15],
\* whatever P[0] is; ParseDecryptedServiceData returns the same nonce and
\* routing ID and the bytes P[14..15]; the EncodedTunnelDomain of the
\* TunnelInfo equals the index UnpackDecryptedAdvert computes.
C23_AdvertFields ==
    /\ q_fn = "UnpackDecryptedAdvert" =>
          /\ q_res.nonce = SubSeq(q_arg, 2, 11)
          /\ q_res.routingID = SubSeq(q_arg, 12, 14)
          /\ q_res.encodedTunnelServerDomain = q_arg[15] + 256 * q_arg[16]
          /\ \A flags \in ReservedValues : UnpackDecryptedAdvert([q_arg EXCEPT ![1] = flags]) = q_res
    /\ (q_fn = "ParseDecryptedServiceData" /\ Len(q_arg) = CableV2PlaintextLength) =>
          /\ q_res.err = NoError
          /\ q_res.nonce = UnpackDecryptedAdvert(q_arg).nonce
          /\ q_res.routingID = UnpackDecryptedAdvert(q_arg).routingID
          /\ q_res.tunnelService = <<q_arg[15], q_arg[16]>>
    /\ q_fn = "tryDecryptCableData" =>
          /\ q_res.EncodedTunnelDomain = UnpackDecryptedAdvert(q_arg).encodedTunnelServerDomain
          /\ q_res.EncodedTunnelDomain = q_arg[15] + 256 * q_arg[16]
          /\ q_res.TunnelServiceID = <<q_arg[15], q_arg[16]>>

\* A TunnelInfo has been built from a plaintext whose domain bytes are 1 and
\* 2: the index is 513.
C23_Witness ==
    /\ q_fn = "tryDecryptCableData"
    /\ q_arg[15] = 1 /\ q_arg[16] = 2
    /\ q_res.EncodedTunnelDomain = 513

(***************************************************************************)
(* C24 .. C29: the QR code.                                                *)
(***************************************************************************)
\* C24: digitDecode(digitEncode(b)) = b for every byte buffer b of every
\* length, the empty buffer and every remainder of the length modulo 7 included.
C24_DigitRoundTrip ==
    /\ (q_fn = "digitDecode" /\ q_orig.fn = "digitEncode") =>
          /\ q_res.err = NoError
          /\ q_res.result = q_orig.arg
    /\ (q_fn = "digitDecode" /\ q_orig.fn = "encodeQRContents") =>
          /\ q_res.err = NoError
          /\ LET in == q_orig.arg
             IN  q_res.result = qrContentsCBOR(in.compressedPublicKey, in.qrSecret, in.randByte, in.now,
                                               IF in.randByte % 4 = 0 THEN 7 ELSE 6)

\* Two full chunks and a partial chunk of 6 bytes of 255 have been encoded
\* and decoded.
C24_Witness ==
    /\ q_fn = "digitDecode"
    /\ q_orig = First("digitEncode", [i \in 1..20 |-> 255])
    /\ q_res.result = q_orig.arg
    /\ Len(q_arg) = 49

\* The widths of the partial chunks.
PartialWidths == <<0, 3, 5, 8, 10, 13, 15>>

\* The k-th chunk of buffer d and the digits that stand for it in ret.
ChunkOf(d, k) == SubSeq(d, chunkSize * (k - 1) + 1, IF chunkSize * k < Len(d) THEN chunkSize * k ELSE Len(d))
DigitsOf(ret, k) == SubSeq(ret, chunkDigits * (k - 1) + 1, IF chunkDigits * k < Len(ret) THEN chunkDigits * k ELSE Len(ret))

\* The QR string is the literal FIDO:/ followed by digits only.
FidoThenDigits(qr) ==
    /\ Len(qr) >= Len(FidoPrefix)
    /\ SubSeq(qr, 1, Len(FidoPrefix)) = FidoPrefix
    /\ \A i \in (Len(FidoPrefix) + 1)..Len(qr) : qr[i] \in 48..57

\* The number of digits for n bytes.
DigitCount(n) == chunkDigits * (n \div chunkSize) + PartialWidths[(n % chunkSize) + 1]

\* The length of the CBOR map encodeQRContents builds for the given draws.
QRContentsLength(in) ==
    1 + 36 + 18 + 2 + 1 + Len(cborEncodeInt64(in.now)) + 2 + 4 + (IF in.randByte % 4 = 0 THEN 4 ELSE 0)

\* C25: digitEncode returns ASCII decimal digits only, 17 for every full
\* 7-byte chunk and 0, 3, 5, 8, 10, 13 or 15 for a final chunk of 0..6 bytes;
\* the digits of a chunk are the decimal of its little-endian value, which
\* always fits the width; the QR string is FIDO:/ followed by those digits.
C25_DigitWidths ==
    /\ q_fn = "digitEncode" =>
          LET n == Len(q_arg)
              ret == q_res.ret
          IN  /\ ~q_res.panic
              /\ \A i \in 1..Len(ret) : ret[i] \in 48..57
              /\ Len(ret) = DigitCount(n)
              /\ \A k \in 1..((n + chunkSize - 1) \div chunkSize) :
                    LET chunk == ChunkOf(q_arg, k)
                    IN  ParseUint(DigitsOf(ret, k)).val = chunk \o Zeros(8 - Len(chunk))
    /\ q_fn = "encodeQRContents" =>
          /\ ~q_res.panic
          /\ FidoThenDigits(q_res.qr)
          /\ Len(q_res.qr) = Len(FidoPrefix) + DigitCount(QRContentsLength(q_arg))

\* One byte of 255 has become the three digits 255, and 7 bytes of 255 have
\* become 17 digits.
C25_Witness ==
    /\ q_fn = "digitEncode"
    /\ \/ q_arg = <<255>> /\ q_res.ret = <<50, 53, 53>>
       \/ q_arg = [i \in 1..7 |-> 255] /\ Len(q_res.ret) = 17 /\ q_res.ret[1] = 55

\* C26: for every 33-byte public key, 16-byte QR secret and both outcomes of
\* the GREASE draw, the string encodeQRContents returns, stripped of FIDO:/,
\* digit-decoded and parsed, is a map of as many entries as were declared and
\* emitted (6, or 7 with key 65535) holding key 0 = public key, 1 = QR secret,
\* 2 = domain count, 3 = timestamp, 4 = false, 5 = "ga".
C26_QRContentsRoundTrip ==
    /\ q_fn = "encodeQRContents" => ~q_res.panic
    /\ (q_fn = "parseCBORMap" /\ q_orig.fn = "encodeQRContents") =>
          LET in == q_orig.arg
              grease == in.randByte % 4 = 0
              m == q_res.result
          IN  /\ q_res.err = NoError
              /\ q_res.pos = Len(q_arg)
              /\ q_arg[1] - 160 = Cardinality(DOMAIN m)
              /\ DOMAIN m = (0..5) \cup (IF grease THEN {65535} ELSE {})
              /\ m[0] = <<"bytes", in.compressedPublicKey>>
              /\ m[1] = <<"bytes", in.qrSecret>>
              /\ m[2] = <<"int", I64(2)>>
              /\ m[3] = <<"int", in.now>>
              /\ m[4] = <<"bool", FALSE>>
              /\ m[5] = <<"string", <<103, 97>>>>

\* A QR code with the GREASE pair has been decoded and parsed into 7 entries.
C26_Witness ==
    /\ q_fn = "parseCBORMap"
    /\ q_orig.fn = "encodeQRContents"
    /\ q_orig.arg.randByte = 4
    /\ q_res.err = NoError
    /\ Cardinality(DOMAIN q_res.result) = 7

\* The bytes after the initial byte, read as a big-endian number.
AfterInitialByte(enc) == Zeros(9 - Len(enc)) \o SubSeq(enc, 2, Len(enc))

\* C27: for a non-negative v, cborEncodeInt64(v) has 1 byte if v < 24, 2 if
\* v < 256, 3 if v < 65536, 5 if v < 2^32 and 9 otherwise; its first byte has
\* major type 0 and the additional information of that width, the rest is v
\* in big-endian, and decoding gives back v.
C27_MinimalInteger ==
    (q_fn = "cborEncodeInt64" /\ q_arg[1] < 128) =>
        LET v == q_arg
            enc == q_res
            small == AllZero(SubSeq(v, 1, 7)) /\ v[8] < 24
            width == IF AllZero(SubSeq(v, 1, 7)) THEN (IF v[8] < 24 THEN 0 ELSE 1)
                     ELSE IF AllZero(SubSeq(v, 1, 6)) THEN 2
                     ELSE IF AllZero(SubSeq(v, 1, 4)) THEN 4 ELSE 8
        IN  /\ Len(enc) = 1 + width
            /\ enc[1] \div 32 = 0
            /\ enc[1] % 32 = (CASE width = 0 -> v[8] [] width = 1 -> 24 [] width = 2 -> 25
                                [] width = 4 -> 26 [] OTHER -> 27)
            /\ ~small => AfterInitialByte(enc) = v
            /\ LET decoded == cborArgument(enc, 0, enc[1] % 32, 8)
               IN  ~decoded.panic /\ decoded.n = v /\ decoded.pos = Len(enc)

\* 2^32 has been encoded in 9 bytes, and 65535 in 3.
C27_Witness ==
    /\ q_fn = "cborEncodeInt64"
    /\ \/ q_arg = <<0, 0, 0, 1, 0, 0, 0, 0>> /\ q_res = <<27, 0, 0, 0, 1, 0, 0, 0, 0>>
       \/ q_arg = I64(65535) /\ q_res = <<25, 255, 255>>

\* C28: ValidateQRDataCBOR returns no error exactly when the public key has
\* 33 bytes and the QR secret 16, whatever the other fields are.
C28_CBORValidator ==
    q_fn = "ValidateQRDataCBOR" =>
        (q_res = NoError <=> (Len(q_arg.PublicKey) = 33 /\ Len(q_arg.QRSecret) = 16))

\* A QRData with a 33-byte key and a 16-byte secret but no tunnel ID, private
\* key or URL has been accepted.
C28_Witness ==
    /\ q_fn = "ValidateQRDataCBOR"
    /\ q_res = NoError
    /\ q_arg.TunnelID = <<>> /\ q_arg.PrivateKey = <<>> /\ q_arg.TunnelURL.host = ""

IsSliceOf(b, k) ==
    /\ Len(b) > 0
    /\ Len(b) <= Len(k)
    /\ \E i \in 1..(Len(k) - Len(b) + 1) : SubSeq(k, i, i + Len(b) - 1) = b

\* C30: advertisement decryption writes no byte of the QR secret and no byte
\* of the EID key derived from it (neither of its AES half nor of its HMAC
\* half) to the process log, which setupLogFile sends to log/latest.log and
\* to standard output.  DecryptServiceData logs the first eight bytes of the
\* EID key and trialDecrypt the first eight bytes of each half, so this is
\* violated as soon as the key has been derived.
C30_NoSecretInLog ==
    \A i \in 1..Len(d_log) :
        /\ ~IsSliceOf(d_log[i].bytes, qrSecret)
        /\ ~IsSliceOf(d_log[i].bytes, eidKey)

(***************************************************************************)
(* C31: the domain count in the QR code.                                   *)
(***************************************************************************)
\* C31: for every number n of assigned tunnel server domains that
\* encodeQRContents accepts without panicking (0 to 24), the byte written
\* for key 2 is a one-byte CBOR small integer (0..23) that decodes to n, and
\* the rest of the map still parses: keys 0, 1, 3, 4, 5 and the GREASE key
\* come out as they were written.
C31_DomainCountSmallInteger ==
    /\ (q_fn = "encodeQRContentsOfDomains" /\ Len(q_arg.domains) <= 24) => ~q_res.panic
    /\ (q_fn = "parseCBORMap" /\ q_orig.fn = "encodeQRContentsOfDomains") =>
          LET in == q_orig.arg
              m == q_res.result
          IN  /\ q_arg[56] = 2
              /\ q_arg[57] < 24
              /\ q_res.err = NoError
              /\ q_res.pos = Len(q_arg)
              /\ DOMAIN m = (0..5) \cup (IF in.randByte % 4 = 0 THEN {65535} ELSE {})
              /\ m[0] = <<"bytes", in.compressedPublicKey>>
              /\ m[1] = <<"bytes", in.qrSecret>>
              /\ m[2] = <<"int", I64(Len(in.domains))>>
              /\ m[3] = <<"int", in.now>>
              /\ m[4] = <<"bool", FALSE>>
              /\ m[5] = <<"string", <<103, 97>>>>

(***************************************************************************)
(* The BLE scanner.                                                        *)
(***************************************************************************)
\* The bytes were accepted by DecryptServiceData under the scanner's QR
\* secret, and the TunnelInfo carries the fields of that plaintext: bytes
\* 1-10 as the connection nonce, 11-13 as the routing ID, 14-15 as the tunnel
\* service identifier, which also selects the tunnel host.
Authenticated(p) ==
    LET d == DecryptServiceData(ScannerSecret, p.data)
    IN  /\ d.err = NoError
        /\ Len(d.data) = CableV2PlaintextLength
        /\ d.data[1] = 0
        /\ p.info.ConnectionNonce = SubSeq(d.data, 2, 11)
        /\ p.info.RoutingID = SubSeq(d.data, 12, 14)
        /\ p.info.TunnelServiceID = SubSeq(d.data, 15, 16)
        /\ p.info.TunnelURL.host = getTunnelURL(SubSeq(d.data, 15, 16))

\* C32: every TunnelInfo that a path of the scanner (standard service data,
\* Apple manufacturer data, zero-padded iPad data) places on the channel was
\* built from a plaintext that DecryptServiceData accepted under the
\* scanner's QR secret, with its connection nonce, routing ID and tunnel
\* service identifier taken from that plaintext; a call reports success
\* exactly when it placed one; and what is on the channel and what
\* WaitForTunnelAdvertisement returns is one of the TunnelInfos so placed.
C32_OnlyAuthenticatedTunnelInfo ==
    /\ \A p \in Range(h_placed) \cup Range(c_last.placed) : Authenticated(p)
    /\ c_last.ok <=> c_last.placed # <<>>
    /\ \A i \in DOMAIN tunnelInfoChan : \E j \in DOMAIN h_placed : h_placed[j].info = tunnelInfoChan[i]
    /\ w_ret.info # NoTunnelInfo =>
          /\ w_ret.err = NoError
          /\ \E j \in DOMAIN h_placed : h_placed[j].info = w_ret.info

\* WaitForTunnelAdvertisement has returned the TunnelInfo of an advertisement
\* that came as standard service data, after the scanner had also turned
\* down an advertisement that does not decrypt.
C32_Witness ==
    /\ w_pc = "returned"
    /\ w_ret.info # NoTunnelInfo
    /\ Len(h_placed) = 1
    /\ h_placed[1].source = "Standard Service Data"
    /\ h_placed[1].info = w_ret.info
    /\ c_last.fn = "processTunnelAdvertisement"
    /\ c_last.outcome = "decryptFailed"

\* WaitForTunnelAdvertisement has returned a TunnelInfo.
ReturnedTunnelInfo == w_pc = "returned" /\ w_ret.info # NoTunnelInfo

\* C33: once WaitForTunnelAdvertisement has returned a TunnelInfo, StopScan
\* is eventually called on the adapter, whether or not the caller cancels
\* the context.
C33_ScanStoppedAfterReturn == ReturnedTunnelInfo ~> (a_stopCalls > 0)

\* C34: the scan callback never blocks on the tunnel-info channel.  The
\* channel never holds more than one TunnelInfo; a callback that has an
\* advertisement to process can always finish; a send to the full channel is
\* dropped and reported as a failure, a send that went through as a success;
\* nothing that was placed is lost or overwritten, so that what the channel
\* holds is the last one placed; and WaitForTunnelAdvertisement returns the
\* first one placed.
C34_CallbackNeverBlocks ==
    /\ Len(tunnelInfoChan) <= 1
    /\ g_pc = "callback" => ENABLED CallbackProcess
    /\ c_last.outcome = "dropped" => ~c_last.ok /\ c_last.placed = <<>>
    /\ c_last.outcome = "sent" => c_last.ok /\ Len(c_last.placed) = 1
    /\ Len(h_placed) = Len(tunnelInfoChan) + (IF ReturnedTunnelInfo THEN 1 ELSE 0)
    /\ tunnelInfoChan # <<>> => tunnelInfoChan[1] = h_placed[Len(h_placed)].info
    /\ ReturnedTunnelInfo => w_ret.info = h_placed[1].info

\* An advertisement was accepted while the channel was full and was dropped;
\* the caller then received the one that had been placed first.
C34_Witness ==
    /\ ReturnedTunnelInfo
    /\ c_last.fn = "processTunnelAdvertisement"
    /\ c_last.outcome = "dropped"
    /\ ~c_last.afterReturn
    /\ Len(h_placed) = 1
    /\ w_ret.info = h_placed[1].info

\* WaitForTunnelAdvertisement has returned with the context done, and the
\* context was cancelled before any advertisement was accepted.
ReturnedCancelledBeforeAccept ==
    /\ w_pc = "returned"
    /\ w_ret.ctx = "done"
    /\ h_placed = <<>> \/ h_placed[1].ctx = "done"

\* C35 as stated: when the context is cancelled before any advertisement was
\* accepted, WaitForTunnelAdvertisement returns the context's error and no
\* TunnelInfo.
C35_CancelledReturnsContextError ==
    ReturnedCancelledBeforeAccept => w_ret.info = NoTunnelInfo /\ w_ret.err = ContextCanceled

ScanStartError == <<"failed to start BLE scan", "scan failed">>

\* C35, amended: when the context is cancelled before any advertisement was
\* accepted, WaitForTunnelAdvertisement returns the context's error and no
\* TunnelInfo, or the scan error and no TunnelInfo when adapter.Scan had
\* failed, or the TunnelInfo that a callback which had passed its context
\* check before the cancellation placed after it.  Once the cancellation
\* branch is taken the timer of the inner select can always fire, and the
\* call returns the context's error, also when the scan goroutine never
\* reports that it stopped.  A caller whose context is done returns.
C35_CancelledReturns ==
    /\ [](ReturnedCancelledBeforeAccept =>
             \/ w_ret.info = NoTunnelInfo /\ w_ret.err = ContextCanceled
             \/ w_ret.info = NoTunnelInfo /\ w_ret.err = ScanStartError
                  /\ g_count = 0 /\ g_pc \in {"deferred", "exited"}
             \/ h_placed # <<>> /\ w_ret.info = h_placed[1].info /\ w_ret.err = NoError)
    /\ [](w_pc = "stopWait" => ENABLED WaitStopTimeout)
    /\ (w_pc = "stopWait") ~> (w_pc = "returned" /\ w_ret.info = NoTunnelInfo /\ w_ret.err = ContextCanceled)
    /\ (w_pc = "select" /\ s_ctx = "done") ~> (w_pc = "returned")

\* The context was cancelled with nothing accepted, the caller took the
\* cancellation branch and returned the context's error while the scan
\* goroutine was still inside adapter.Scan and had reported nothing.
C35_Witness ==
    /\ ReturnedCancelledBeforeAccept
    /\ h_placed = <<>>
    /\ w_ret.info = NoTunnelInfo
    /\ w_ret.err = ContextCanceled
    /\ g_pc = "scan"
    /\ scanDoneChan = <<>>

(***************************************************************************)
(* The scan loops of StartScanning.                                        *)
(***************************************************************************)
\* C36: at most one scan loop runs per Scanner: no loop is started while the
\* goroutine of an earlier one has not exited, and so there are never two
\* loops that have not exited.
C36_AtMostOneScanLoop ==
    /\ \A i \in DOMAIN l_loops : l_loops[i].startedBeside = 0
    /\ Cardinality(Alive(l_loops)) <= 1

(***************************************************************************)
(* Concurrent WriteMessage calls.                                          *)
(***************************************************************************)
\* No two sealed frames carry the same nonce.
NoncesDistinct ==
    \A i, j \in DOMAIN x_frames : i # j => x_frames[i].nonce # x_frames[j].nonce

\* Every WriteMessage call has returned.
WritersIdle == \A w \in Writers : x_writers[w].pc = "idle"

\* C37 as stated: in every interleaving of concurrent WriteMessage calls on
\* one Connection each sealed frame carries a distinct nonce, and when the
\* calls have returned the counter equals their number.
C37_ConcurrentNoncesDistinct ==
    /\ NoncesDistinct
    /\ WritersIdle => x_sequenceNo = Len(x_frames)

\* C37, amended: as long as no two WriteMessage calls on one Connection were
\* in progress at the same time, the k-th frame sealed, k counted from 0,
\* carries the nonce of counter value k, so each sealed frame carries a
\* distinct nonce, and when the calls have returned the counter equals their
\* number.
C37_SerializedNoncesDistinct ==
    ~x_overlapped =>
        /\ \A k \in DOMAIN x_frames : x_frames[k].nonce = PutUint64(k - 1) \o Zeros(4)
        /\ NoncesDistinct
        /\ WritersIdle => x_sequenceNo = Len(x_frames)

\* Two goroutines have each made two WriteMessage calls, no two of them at
\* the same time, the second goroutine making the first and the last.
C37_Witness ==
    /\ ~x_overlapped
    /\ WritersIdle
    /\ Len(x_frames) = 4
    /\ \A w \in Writers : x_writers[w].calls = 2
    /\ x_frames[1].message[1] = 2
    /\ x_frames[2].message[1] = 1
    /\ x_frames[4].message[1] = 2
    /\ x_sequenceNo = 4

(***************************************************************************)
(* The QRData values and the package variables.                            *)
(***************************************************************************)
\* The bytes the QRSecret of a QRData reads as now.
QRSecretBytes(qrData) == SliceBytes(qrData.QRSecret, y_qrSecret)

\* C38: the QRSecret and the PublicKey of every QRData that GenerateQRData
\* has returned read as they did when it was returned, whatever calls of
\* GenerateQRData and showQRCode have been made since.
C38_QRSecretKeepsValue ==
    \A i \in DOMAIN y_qrDatas :
        /\ QRSecretBytes(y_qrDatas[i].qrData) = y_qrDatas[i].returned.QRSecret
        /\ y_qrDatas[i].qrData.PublicKey = y_qrDatas[i].returned.PublicKey

====
